---- MODULE Spec2Model ----
(***************************************************************************)
(* Metrics computation engine of agntcy/telemetry-hub.                     *)
(*                                                                         *)
(* MetricsProcessor.compute_metrics (processor.py) schedules one task per  *)
(* applicable (metric, unit) pair, runs the tasks under an optional        *)
(* semaphore, and sorts the gathered results into three buckets.           *)
(*   Spec       one compute_metrics invocation, from scheduling to return  *)
(*   SpecSched  the scheduling loops alone, over larger batches            *)
(*   SpecModel  concurrent _initialize_metric calls sharing a ModelHandler *)
(*   SpecLive   one invocation under fair scheduling of its tasks          *)
(*   SpecConfig one invocation for every bound the constructor can get     *)
(* The registry, the native metrics and the span parsers have their own    *)
(* specifications: SpecRegistry, SpecNative, SpecResolve, SpecNormalize,   *)
(* SpecParse, SpecShared (the batch as objects), SpecSession.              *)
(***************************************************************************)
EXTENDS Integers, Sequences, FiniteSets, TLC

\* ------------------------------------------------------------------ bounds
\* metrics registered in one registry
MaxMetrics == 3
\* sessions of a batch and spans of a session, for a run of the engine
MaxSessions == 1
MaxSpans == 1
\* registered metrics, sessions of a batch and spans of a session, for the
\* scheduling loops alone
MaxSchedMetrics == 2
MaxSchedSessions == 2
MaxSchedSpans == 2
\* largest concurrency bound that is configured
MaxConcurrency == 2
\* rows the metrics store returns for one session
MaxRows == 2
\* concurrent callers of _initialize_metric
MaxCallers == 3
\* register_metric calls made on one registry
MaxRegCalls == 3

\* ------------------------------------------------------------- vocabulary
None == "None"
NoAttr == "<no attribute>"

SessionIds == <<"s1", "s2", "s3">>
EntityTypes == {"tool", "agent"}
Levels == {"span", "session", "population"}
BucketKeys == {"span_metrics", "session_metrics", "population_metrics"}

\* values a session attribute can hold, as far as the requirement check
\* looks at them: its Python type, its own length (or number), and for a
\* mapping the lengths found under "elements", "query" and "response"
Value(type, len) == [type |-> type, len |-> len, elements |-> 0, query |-> 0, response |-> 0]
NoneValue == Value("none", 0)
NoAttrValue == Value("noattr", 0)
ConversationData(n) == [type |-> "dict", len |-> 1, elements |-> n, query |-> 0, response |-> 0]
TransitionCounts(n) == Value("counter", n)

\* app_name of a unit, as SessionSet.stats.meta.session_ids records it
AppOf(sid) == "app-" \o sid

\* ---------------------------------------------------------- metric classes
\* The metric classes a registry is filled from.  aggregation_level is the
\* class's level; required is its entity-type allow-list (None: no allow
\* list); REQUIRED_PARAMETERS is the class attribute of that name, a mapping
\* from metric names to parameter lists, given as its single key and that
\* key's list; provider is get_model_provider(); create_model_ok says
\* whether the metric's own create_model returns a model; needs_model says
\* whether init_with_model refuses a missing model.
Providers == {"NATIVE", "RAGAS"}
NoRequired == [has_entity_type |-> FALSE, entity_type |-> {}]
Required(types) == [has_entity_type |-> TRUE, entity_type |-> types]
NoParams == [key |-> None, params |-> <<>>]
Params(key, ps) == [key |-> key, params |-> ps]

MetricClass(c) ==
  CASE c = "SpanAll" ->
         [name |-> c, aggregation_level |-> "span", required |-> NoRequired,
          REQUIRED_PARAMETERS |-> NoParams, provider |-> None,
          create_model_ok |-> FALSE, needs_model |-> FALSE]
    [] c = "SpanTool" ->
         [name |-> c, aggregation_level |-> "span", required |-> Required({"tool"}),
          REQUIRED_PARAMETERS |-> NoParams, provider |-> "NATIVE",
          create_model_ok |-> FALSE, needs_model |-> TRUE]
    [] c = "SessFree" ->
         [name |-> c, aggregation_level |-> "session", required |-> NoRequired,
          REQUIRED_PARAMETERS |-> NoParams, provider |-> None,
          create_model_ok |-> FALSE, needs_model |-> FALSE]
    [] c = "SessConv" ->
         [name |-> c, aggregation_level |-> "session", required |-> NoRequired,
          REQUIRED_PARAMETERS |-> Params(c, <<"conversation_data">>),
          provider |-> "NATIVE", create_model_ok |-> TRUE, needs_model |-> TRUE]
    [] c = "SessTrans" ->
         [name |-> c, aggregation_level |-> "session", required |-> Required({"agent", "tool"}),
          REQUIRED_PARAMETERS |->
            Params(c, <<"conversation_data", "agent_transition_counts">>),
          provider |-> "RAGAS", create_model_ok |-> FALSE, needs_model |-> TRUE]
    [] c = "PopStats" ->
         [name |-> c, aggregation_level |-> "population", required |-> NoRequired,
          REQUIRED_PARAMETERS |-> NoParams, provider |-> "RAGAS",
          create_model_ok |-> FALSE, needs_model |-> TRUE]

ClassOrder == <<"SpanAll", "SpanTool", "SessFree", "SessConv", "SessTrans", "PopStats">>
ClassNames == {ClassOrder[i] : i \in 1..Len(ClassOrder)}

\* ------------------------------------------------------------ the registry
\* MetricRegistry: the registered names in insertion order; get_metric
\* returns the class stored under a name, list_metrics the names.
get_metric(name) == MetricClass(name)
list_metrics(reg) == reg

Registries(maxMetrics) ==
  {SelectSeq(ClassOrder, LAMBDA c : c \in S) :
     S \in {T \in SUBSET ClassNames : Cardinality(T) <= maxMetrics}}

\* ------------------------------------------------------------ the batch
Span(sid, j, et) ==
  [span_id |-> sid \o "." \o ToString(j), entity_type |-> et, session_id |-> sid]

SpanLists(sid, maxSpans) ==
  UNION {{[j \in 1..n |-> Span(sid, j, ets[j])] : ets \in [1..n -> EntityTypes]} :
           n \in 0..maxSpans}

Session(sid, spans, conv, trans) ==
  [session_id |-> sid, spans |-> spans, conversation_data |-> conv,
   agent_transition_counts |-> trans]

ConversationValues == {NoneValue, ConversationData(0), ConversationData(1)}
TransitionValues == {TransitionCounts(0), TransitionCounts(1)}

SessionsOf(sid, maxSpans, transitions) ==
  {Session(sid, sp, cv, tv) :
     sp \in SpanLists(sid, maxSpans), cv \in ConversationValues, tv \in transitions}

\* a SessionSet: sessions s1..sn in order
RECURSIVE SessionSetsOfSize(_, _, _)
SessionSetsOfSize(n, maxSpans, transitions) ==
  IF n = 0 THEN {<<>>}
  ELSE {Append(ss, s) : ss \in SessionSetsOfSize(n - 1, maxSpans, transitions),
                        s \in SessionsOf(SessionIds[n], maxSpans, transitions)}

SessionSets(maxSessions, maxSpans, transitions) ==
  UNION {SessionSetsOfSize(n, maxSpans, transitions) : n \in 0..maxSessions}

\* getattr(session_entity, param) with hasattr folded in
GetAttr(s, param) ==
  CASE param = "conversation_data" -> s.conversation_data
    [] param = "agent_transition_counts" -> s.agent_transition_counts
    [] param = "session_id" -> Value("str", 2)
    [] param = "spans" -> Value("list", Len(s.spans))
    [] OTHER -> NoAttrValue

\* ------------------------------------------------- processor.py: helpers
\* _get_metric_requirements: REQUIRED_PARAMETERS.get(metric_name, [])
_get_metric_requirements(metric_class, metric_name) ==
  IF metric_class.REQUIRED_PARAMETERS.key = metric_name
  THEN metric_class.REQUIRED_PARAMETERS.params
  ELSE <<>>

ParamValidWhenPresent(param, v) == v.type \notin {"noattr", "none"}

\* one parameter of _check_session_requirements: TRUE when the loop goes on
\* to the next parameter, FALSE when it returns False
ParamValid(param, v) ==
  IF v.type = "noattr" THEN FALSE
  ELSE IF v.type = "none" THEN FALSE
  ELSE IF param = "conversation_data" THEN v.type = "dict" /\ v.elements # 0
  ELSE IF param \in {"conversation_elements", "tool_calls", "agent_transitions"}
    THEN v.type = "list" /\ v.len # 0
  ELSE IF param \in {"input_query", "final_response"} THEN v.len # 0
  ELSE IF param = "workflow_data"
    THEN v.type = "dict" /\ v.query # 0 /\ v.response # 0
  ELSE IF param = "agent_transition_counts"
    THEN v.type \in {"counter", "dict"} /\ v.len # 0
  ELSE IF v.type \in {"str", "list", "dict", "counter"} THEN v.len # 0
  ELSE TRUE

_check_session_requirements(session_entity, required_params) ==
  \A k \in 1..Len(required_params) :
     ParamValid(required_params[k], GetAttr(session_entity, required_params[k]))

_should_compute_metric_for_any_span(metric, span) == TRUE

_should_compute_metric_for_span(metric, span) ==
  IF ~metric.required.has_entity_type THEN TRUE
  ELSE IF span.entity_type = "" THEN TRUE
  ELSE span.entity_type \in metric.required.entity_type

\* ------------------------------------------------------ the model handler
\* ModelHandler: store[p] is the model cached for provider p (0: none),
\* built[p] the number of model instances constructed so far for p.  A
\* model is named by its construction number.
EmptyHandler == [store |-> [p \in Providers |-> 0], built |-> [p \in Providers |-> 0]]

Construct(h, p) == [h EXCEPT !.built[p] = @ + 1]

\* get_or_create_model: the cached model, else a new one when the handler
\* can create one for the provider (stored at once), else no model
get_or_create_model(h, creatable, p) ==
  IF h.store[p] # 0 THEN [model |-> h.store[p], h |-> h]
  ELSE IF p \in creatable
    THEN [model |-> h.built[p] + 1,
          h |-> [Construct(h, p) EXCEPT !.store[p] = h.built[p] + 1]]
  ELSE [model |-> 0, h |-> h]

set_model(h, p, model) == [h EXCEPT !.store[p] = model]

\* the metric's create_model, called by the fallback
create_model(metric_class, h) ==
  IF metric_class.create_model_ok
  THEN [model |-> h.built[metric_class.provider] + 1,
        h |-> Construct(h, metric_class.provider)]
  ELSE [model |-> 0, h |-> h]

init_with_model(metric_class, model) == ~(metric_class.needs_model /\ model = 0)

\* _initialize_metric lines 169-180: the fallback after the handler
\* returned no model
InitFallback(metric_class, h) ==
  LET c == create_model(metric_class, h)
  IN IF c.model # 0
     THEN [model |-> c.model, h |-> set_model(c.h, metric_class.provider, c.model)]
     ELSE c

\* _initialize_metric, run without interruption: ok says whether an
\* instance is returned, h is the handler afterwards
_initialize_metric(metric_class, h, creatable) ==
  IF metric_class.provider = None
  THEN [ok |-> init_with_model(metric_class, 0), h |-> h]
  ELSE LET g == get_or_create_model(h, creatable, metric_class.provider)
           m == IF g.model = 0 THEN InitFallback(metric_class, g.h) ELSE g
       IN [ok |-> init_with_model(metric_class, m.model), h |-> m.h]

\* ------------------------------------------- compute_metrics: scheduling
RECURSIVE Concat(_)
Concat(ss) == IF ss = <<>> THEN <<>> ELSE Head(ss) \o Concat(Tail(ss))

\* one pass of a loop body that reaches _initialize_metric: the metric, the
\* loop it is in, and the unit (session index, span index)
Call(metric_name, loop, si, xi) ==
  [metric |-> metric_name, loop |-> loop, si |-> si, xi |-> xi]

\* lines 351-385: the span loop of one session
SpanCalls(reg, sess, si) ==
  Concat([xi \in 1..Len(sess[si].spans) |->
    SelectSeq([k \in 1..Len(reg) |-> Call(reg[k], "span", si, xi)],
      LAMBDA c :
        /\ get_metric(c.metric).aggregation_level = "span"
        /\ _should_compute_metric_for_span(get_metric(c.metric), sess[si].spans[xi]))])

\* lines 388-404: the session loop of one session
SessionCalls(reg, sess, si) ==
  SelectSeq([k \in 1..Len(reg) |-> Call(reg[k], "session", si, 0)],
    LAMBDA c :
      _check_session_requirements(sess[si],
        _get_metric_requirements(get_metric(c.metric), c.metric)))

PopulationCallsTwice(reg) ==
  [k \in 1..2 * Len(reg) |-> Call(reg[((k - 1) % Len(reg)) + 1], "population", 0, 0)]

\* lines 429-431: the population loop
PopulationCalls(reg) == [k \in 1..Len(reg) |-> Call(reg[k], "population", 0, 0)]

InitCalls(reg, sess) ==
  Concat([si \in 1..Len(sess) |-> SpanCalls(reg, sess, si) \o SessionCalls(reg, sess, si)])
    \o PopulationCalls(reg)

\* the coroutine _bounded_safe_compute(metric_instance, data, context)
Task(c, sess) ==
  [metric |-> c.metric,
   aggregation_level |-> get_metric(c.metric).aggregation_level,
   unit |-> c.loop,
   session_id |-> IF c.loop = "population" THEN None ELSE sess[c.si].session_id,
   span_id |-> IF c.loop = "span" THEN sess[c.si].spans[c.xi].span_id ELSE None,
   context |-> c.loop = "session"]

\* lines 382, 406-409, 433-436: a task is appended when an instance came
\* back and, in the session and population loops, has the loop's level
Appends(c, ok) ==
  /\ ok
  /\ c.loop \in {"session", "population"} =>
       get_metric(c.metric).aggregation_level = c.loop

\* _initialize_metric lines 165-172 raise: no model is cached for the
\* metric's provider and creating one (in the handler, or in the metric's
\* create_model) raises
CreationRaises(metric_class, h, failing) ==
  /\ metric_class.provider # None
  /\ metric_class.provider \in failing
  /\ h.store[metric_class.provider] = 0

\* the loops stop at the first _initialize_metric that raises: nothing
\* catches the exception and compute_metrics ends with it
RECURSIVE RunInits(_, _, _, _, _, _)
RunInits(calls, sess, h, creatable, failing, acc) ==
  IF calls = <<>> THEN [tasks |-> acc, h |-> h, raised |-> None]
  ELSE LET c == Head(calls)
           r == _initialize_metric(get_metric(c.metric), h, creatable)
       IN IF CreationRaises(get_metric(c.metric), h, failing)
          THEN [tasks |-> <<>>, h |-> h, raised |-> "ModelError"]
          ELSE RunInits(Tail(calls), sess, r.h, creatable, failing,
                        IF Appends(c, r.ok) THEN Append(acc, Task(c, sess)) ELSE acc)

\* lines 340-440: the task list and the handler after the three loops
ScheduleTasks(reg, sess, h, creatable, failing) ==
  RunInits(InitCalls(reg, sess), sess, h, creatable, failing, <<>>)

\* ------------------------------------------------------------ MetricResult
Num(n) == [kind |-> "num", n |-> n]
EmptyDict == [kind |-> "dict", n |-> 0]
Sentinel == Num(-1)

NoResult == [metric_name |-> None, aggregation_level |-> None, value |-> Num(0),
             success |-> FALSE, session_id |-> <<>>, app_name |-> None,
             error_message |-> "", from_cache |-> FALSE, source |-> None]

MetricResult(name, level, value, success, sids, app, err) ==
  [metric_name |-> name, aggregation_level |-> level, value |-> value,
   success |-> success, session_id |-> sids, app_name |-> app,
   error_message |-> err, from_cache |-> FALSE, source |-> "native"]

\* data.session_id as a one-element list, the way metric bodies fill session_id
UnitSessionIds(task) == IF task.unit = "population" THEN <<>> ELSE <<task.session_id>>

\* what a metric body does when computed on a unit
Behaviours == {"ok", "ok_nosid", "ok_nolevel", "optout", "fail", "fail_silent", "raise"}

\* the result a metric body returns (every behaviour but "raise")
ComputeResult(task, beh) ==
  CASE beh = "ok" ->
         MetricResult(task.metric, task.aggregation_level, Num(1), TRUE,
                      UnitSessionIds(task), None, "")
    [] beh = "ok_nosid" ->
         MetricResult(task.metric, task.aggregation_level, Num(0), TRUE, <<>>, None, "")
    [] beh = "ok_nolevel" ->
         MetricResult(task.metric, "", Num(1), TRUE, UnitSessionIds(task), None, "")
    [] beh = "optout" ->
         MetricResult(task.metric, task.aggregation_level, Sentinel, TRUE,
                      UnitSessionIds(task), None, "")
    [] beh = "fail" ->
         MetricResult(task.metric, task.aggregation_level, Sentinel, FALSE,
                      UnitSessionIds(task), "own-app", "Computation failed")
    [] beh = "fail_silent" ->
         MetricResult("", "", Sentinel, FALSE, <<>>, None, "")

\* _safe_compute lines 110-142: the result built from an exception
DataAppName(task) == IF task.unit = "population" THEN "unknown-app" ELSE AppOf(task.session_id)

ErrorResult(task, message) ==
  MetricResult(task.metric, task.aggregation_level, Sentinel, FALSE, <<>>,
               DataAppName(task), message)

\* ------------------------------------------------- base.py: the cache read
\* a row of get_session_metrics: the stored metric's name and the form its
\* "metrics" field has (a mapping, a JSON string, a string that is no JSON)
Row(name, form) == [metric_name |-> name, form |-> form]
RowKinds(name) ==
  {Row(name, "json"), Row(name, "badjson"), Row("Other", "dict")}
RowLists(name) == UNION {[1..n -> RowKinds(name)] : n \in 0..MaxRows}

\* _check_metrics_conditions: the index of the first row whose metrics parse
\* and carry the metric's name, 0 when there is none
FirstMatch(rows, metric_name) ==
  LET hits == {k \in 1..Len(rows) :
                 rows[k].form # "badjson" /\ rows[k].metric_name = metric_name}
  IN IF hits = {} THEN 0 ELSE CHOOSE k \in hits : \A j \in hits : k <= j

\* the MetricResult rebuilt from a stored row
CachedResult(task) ==
  [MetricResult(task.metric, task.aggregation_level, Num(1), TRUE,
                <<task.session_id>>, "stored-app", "")
     EXCEPT !.from_cache = TRUE]

\* check_cache_metric: NoResult stands for None
check_cache_metric(enabled, rows, task) ==
  IF ~enabled THEN NoResult
  ELSE IF FirstMatch(rows, task.metric) = 0 THEN NoResult
  ELSE CachedResult(task)

\* ---------------------------------------- compute_metrics: result assembly
\* line 455: the results that are skipped
Discarded(result) ==
  (result.value = Sentinel \/ result.value = EmptyDict) /\ ~result.success

\* lines 447-449
sessions_appname_dict(sess) ==
  [sid \in {sess[i].session_id : i \in 1..Len(sess)} |-> AppOf(sid)]

DictGet(d, k, default) == IF k \in DOMAIN d THEN d[k] ELSE default

BucketOfSession(aggregation_level) == "session_metrics"

BucketOf(aggregation_level) == aggregation_level \o "_metrics"

EmptyBuckets == [k \in BucketKeys |-> <<>>]

\* lines 454-463: the loop over the gathered results; raised names the
\* exception that ends it early
RECURSIVE Organize(_, _, _)
Organize(results, table, buckets) ==
  IF results = <<>> THEN [raised |-> None, metric_results |-> buckets]
  ELSE LET r == Head(results) IN
    IF Discarded(r) THEN Organize(Tail(results), table, buckets)
    ELSE IF r.aggregation_level \in {"span", "session"} /\ r.session_id = <<>>
      THEN [raised |-> "IndexError", metric_results |-> buckets]
    ELSE LET r2 == IF r.aggregation_level \in {"span", "session"}
                   THEN [r EXCEPT !.app_name = DictGet(table, r.session_id[1], r.app_name)]
                   ELSE r
         IN IF BucketOf(r2.aggregation_level) \notin BucketKeys
            THEN [raised |-> "KeyError", metric_results |-> buckets]
            ELSE Organize(Tail(results), table,
                   [buckets EXCEPT ![BucketOf(r2.aggregation_level)] = Append(@, r2)])

\* ------------------------------------------------------------------ state
\* an optional integer: <<>> is None, <<n>> is n
NoInt == <<>>
Some(n) == <<n>>

VARIABLES
  registry,              \* MetricRegistry._metrics: the registered names
  sessions_set,          \* the SessionSet passed to compute_metrics
  creatable,             \* the providers the ModelHandler can create a model for
  max_concurrent_tasks,  \* the constructor argument
  env_limit,             \* os.getenv("METRICS_MAX_CONCURRENCY") at construction
  failing,               \* the providers for which creating a model raises
  handler,               \* the ModelHandler
  pc,                    \* where compute_metrics is: start, gather, returned, raised
  tasks,                 \* the coroutines handed to asyncio.gather
  tpc,                   \* where each task is: wait, cache, compute, done
  results,               \* the MetricResult of each finished task
  calls,                 \* per task, the cache reads and compute calls made
  semaphore,             \* MetricsProcessor._semaphore: its free permits
  metric_results,        \* the mapping compute_metrics builds
  raised,                \* the exception compute_metrics ended with
  callers,               \* the _initialize_metric calls running side by side
  _metrics,              \* MetricRegistry._metrics: name and class, in insertion order
  reg_log,               \* the register_metric calls made so far
  metric_input,          \* a native metric and the data its compute is called on
  metric_output,         \* the MetricResult _safe_compute returned for it
  scan,                  \* CyclesCount's counter: its index, its count, where it is
  heap,                  \* the dicts of a batch as objects, by address
  raw_spans,             \* the batch handed to the span parser
  converted_spans,       \* the batch after format detection and conversion
  passes,                \* how often the batch went through normalization
  span_entities,         \* the SpanEntity list the parser returned
  parse_raised,          \* the exception the parser ended with
  parser,                \* the parser that ran: entities or core
  tool_definitions_by_name  \* the definition table the parser built

vars == <<registry, sessions_set, creatable, max_concurrent_tasks, env_limit, failing, handler, pc,
          tasks, tpc, results, calls, semaphore, metric_results, raised, callers,
          _metrics, reg_log, metric_input, metric_output, scan, heap,
          raw_spans, converted_spans, passes, span_entities, parse_raised, parser,
          tool_definitions_by_name>>

\* what the engine leaves alone: a registry being filled
parsing == <<heap, raw_spans, converted_spans, passes, span_entities, parse_raised, parser,
          tool_definitions_by_name>>
aside == <<_metrics, reg_log, metric_input, metric_output, scan, heap,
           raw_spans, converted_spans, passes, span_entities, parse_raised, parser,
          tool_definitions_by_name>>
RegistryIdle == _metrics = <<>> /\ reg_log = <<>>
ScanIdle == [pc |-> "idle", i |-> 0, cycle_count |-> 0]
NativeIdle == metric_input = None /\ metric_output = NoResult /\ scan = ScanIdle
ParserIdle ==
  /\ heap = <<>>
  /\ raw_spans = <<>>
  /\ converted_spans = <<>>
  /\ passes = 0
  /\ span_entities = <<>>
  /\ parse_raised = None
  /\ parser = None
  /\ tool_definitions_by_name = <<>>
AsideIdle == RegistryIdle /\ NativeIdle /\ ParserIdle

config == <<registry, sessions_set, creatable, max_concurrent_tasks, env_limit, failing>>

\* an environment variable: <<>> when it is not set, <<text>> when it is set
\* to text, a sequence of characters
Unset == <<>>
EnvText(text) == <<text>>
EnvChars == {" ", "-", "0", "2", "x"}
EnvLimits(max_len) ==
  {Unset} \cup {EnvText(text) : text \in UNION {[1..n -> EnvChars] : n \in 0..max_len}}

\* int(str): surrounding whitespace is dropped, a sign may lead, decimal
\* digits follow; <<>> for ValueError
RECURSIVE Stripped(_)
Stripped(text) ==
  IF text = <<>> THEN text
  ELSE IF Head(text) = " " THEN Stripped(Tail(text))
  ELSE IF text[Len(text)] = " " THEN Stripped(SubSeq(text, 1, Len(text) - 1))
  ELSE text
DigitValue(ch) == CASE ch = "0" -> 0 [] ch = "1" -> 1 [] ch = "2" -> 2 [] OTHER -> -1
RECURSIVE Decimal(_)
Decimal(digits) ==
  IF digits = <<>> THEN 0
  ELSE 10 * Decimal(SubSeq(digits, 1, Len(digits) - 1)) + DigitValue(digits[Len(digits)])
Unsigned(digits) ==
  IF digits = <<>> \/ \E k \in 1..Len(digits) : DigitValue(digits[k]) < 0
  THEN NoInt
  ELSE Some(Decimal(digits))
Signed(text) ==
  IF text = <<>> THEN NoInt
  ELSE IF Head(text) = "-"
  THEN (IF Unsigned(Tail(text)) = NoInt THEN NoInt
        ELSE Some(0 - Unsigned(Tail(text))[1]))
  ELSE IF Head(text) = "+" THEN Unsigned(Tail(text))
  ELSE Unsigned(text)
ParseInt(text) == Signed(Stripped(text))

\* __init__ lines 41-49: the environment is read when no argument was
\* passed, a set and non-empty value is parsed, a value that does not parse
\* is ignored
ReadLimit(limit, env) ==
  IF limit # NoInt THEN limit
  ELSE IF env = Unset THEN NoInt
  ELSE IF env[1] = <<>> THEN NoInt
  ELSE ParseInt(env[1])

\* __init__ lines 51-64: the semaphore for a bound
MakeSemaphoreOfAnyBound(limit) == limit

MakeSemaphore(limit) ==
  IF limit = NoInt THEN NoInt
  ELSE IF limit[1] <= 0 THEN NoInt
  ELSE limit

Limits == {NoInt} \cup {Some(n) : n \in 0..MaxConcurrency}

InitConfigured(registries, sets, creatables, limits, envs) ==
  /\ failing = {}
  /\ registry \in registries
  /\ sessions_set \in sets
  /\ creatable \in creatables
  /\ max_concurrent_tasks \in limits
  /\ env_limit \in envs
  /\ handler = EmptyHandler
  /\ pc = "start"
  /\ tasks = <<>>
  /\ tpc = <<>>
  /\ results = <<>>
  /\ calls = <<>>
  /\ semaphore = MakeSemaphore(ReadLimit(max_concurrent_tasks, env_limit))
  /\ metric_results = EmptyBuckets
  /\ raised = None
  /\ callers = <<>>

\* a processor constructed with METRICS_MAX_CONCURRENCY not set
InitWith(registries, sets, creatables, limits) ==
  InitConfigured(registries, sets, creatables, limits, {Unset})

\* a run of the engine: a small batch whose sessions recorded transitions,
\* and a handler that creates a model for every provider or for none
Init ==
  /\ InitWith(Registries(MaxMetrics),
              SessionSets(MaxSessions, MaxSpans, {TransitionCounts(1)}),
              {{}, Providers}, Limits)
  /\ AsideIdle

\* ---------------------------------------------------------------- actions
\* compute_metrics lines 340-440: the three scheduling loops
Schedule ==
  /\ pc = "start"
  /\ LET s == ScheduleTasks(list_metrics(registry), sessions_set, handler, creatable,
                            failing)
     IN /\ tasks' = s.tasks
        /\ handler' = s.h
        /\ tpc' = [i \in 1..Len(s.tasks) |-> "wait"]
        /\ results' = [i \in 1..Len(s.tasks) |-> NoResult]
        /\ calls' = [i \in 1..Len(s.tasks) |-> <<>>]
        /\ raised' = s.raised
        /\ pc' = IF s.raised = None THEN "gather" ELSE "raised"
  /\ UNCHANGED <<aside, config, callers, semaphore, metric_results>>

\* the semaphore's acquire and release
CanAcquireAlways(sem) == TRUE

CanAcquire(sem) == IF sem = NoInt THEN TRUE ELSE sem[1] > 0
Acquire(sem) == IF sem = NoInt THEN sem ELSE Some(sem[1] - 1)
Release(sem) == IF sem = NoInt THEN sem ELSE Some(sem[1] + 1)

\* _bounded_safe_compute lines 149-153 and _safe_compute lines 82-89: a task
\* takes a permit and enters _safe_compute, which awaits the cache read of
\* a span or session metric and the compute call of a population metric
Enter(i) ==
  /\ pc = "gather"
  /\ tpc[i] = "wait"
  /\ CanAcquire(semaphore)
  /\ semaphore' = Acquire(semaphore)
  /\ IF tasks[i].aggregation_level \in {"span", "session"}
     THEN /\ tpc' = [tpc EXCEPT ![i] = "cache"]
          /\ calls' = [calls EXCEPT ![i] = Append(@, "cache")]
     ELSE /\ tpc' = [tpc EXCEPT ![i] = "compute"]
          /\ calls' = [calls EXCEPT ![i] = Append(@, "compute")]
  /\ UNCHANGED <<aside, config, callers, handler, pc, tasks, results, metric_results, raised>>

\* _safe_compute line 90: a cache read that returned a result ends the task
UsesCachedNever(cached_result) == FALSE

UsesCached(cached_result) == cached_result # NoResult

\* _safe_compute lines 90-108: the cache read returns; a hit is the task's
\* result, a miss calls the metric's compute
CacheReturn(i) ==
  /\ pc = "gather"
  /\ tpc[i] = "cache"
  /\ \E enabled \in BOOLEAN, rows \in RowLists(tasks[i].metric), fails \in BOOLEAN :
       LET cached_result == check_cache_metric(enabled, rows, tasks[i])
           read == IF cached_result # NoResult THEN "hit" ELSE "miss"
       IN IF enabled /\ fails
          THEN \* the retrieval of line 225 raises into the except of line 110
               /\ results' = [results EXCEPT ![i] = ErrorResult(tasks[i], "cache")]
               /\ tpc' = [tpc EXCEPT ![i] = "done"]
               /\ semaphore' = Release(semaphore)
               /\ calls' = [calls EXCEPT ![i] = Append(@, "error")]
          ELSE IF UsesCached(cached_result)
          THEN /\ results' = [results EXCEPT ![i] = cached_result]
               /\ tpc' = [tpc EXCEPT ![i] = "done"]
               /\ semaphore' = Release(semaphore)
               /\ calls' = [calls EXCEPT ![i] = Append(@, read)]
          ELSE /\ tpc' = [tpc EXCEPT ![i] = "compute"]
               /\ calls' = [calls EXCEPT ![i] = @ \o <<read, "compute">>]
               /\ UNCHANGED <<results, semaphore>>
  /\ UNCHANGED <<aside, config, callers, handler, pc, tasks, metric_results, raised>>

\* _safe_compute lines 108-142: compute returns a result or raises, and the
\* task leaves the semaphore
SafeComputeResult(task, beh) ==
  IF beh = "raise" THEN ErrorResult(task, "boom") ELSE ComputeResult(task, beh)

ComputeReturn(i) ==
  /\ pc = "gather"
  /\ tpc[i] = "compute"
  /\ \E beh \in Behaviours :
       results' = [results EXCEPT ![i] = SafeComputeResult(tasks[i], beh)]
  /\ tpc' = [tpc EXCEPT ![i] = "done"]
  /\ semaphore' = Release(semaphore)
  /\ UNCHANGED <<aside, config, callers, handler, pc, tasks, calls, metric_results, raised>>

AllDone == \A i \in 1..Len(tasks) : tpc[i] = "done"

\* compute_metrics lines 442-465: gather has every result; organize and return
Return ==
  /\ pc = "gather"
  /\ AllDone
  /\ LET o == IF tasks = <<>>
              THEN [raised |-> None, metric_results |-> metric_results]
              ELSE Organize(results, sessions_appname_dict(sessions_set), metric_results)
     IN /\ raised' = o.raised
        /\ metric_results' = o.metric_results
        /\ pc' = IF o.raised = None THEN "returned" ELSE "raised"
  /\ UNCHANGED <<aside, config, callers, handler, tasks, tpc, results, calls, semaphore>>

Next ==
  \/ Schedule
  \/ \E i \in 1..Len(tasks) : Enter(i)
  \/ \E i \in 1..Len(tasks) : CacheReturn(i)
  \/ \E i \in 1..Len(tasks) : ComputeReturn(i)
  \/ Return

Spec == Init /\ [][Next]_vars

\* a run of the engine under fair scheduling: the event loop runs a task
\* that can take a step (a compute or cache call that was awaited returns or
\* raises), and compute_metrics goes on once gather has every result
MaxLiveMetrics == 2
InitLive ==
  /\ InitWith(Registries(MaxLiveMetrics),
              SessionSets(MaxSessions, MaxSpans, {TransitionCounts(1)}),
              {Providers}, Limits)
  /\ AsideIdle

TaskStep == \E i \in 1..Len(tasks) : Enter(i) \/ CacheReturn(i) \/ ComputeReturn(i)

SpecLive == InitLive /\ [][Next]_vars /\ WF_vars(TaskStep) /\ WF_vars(Return)

\* a processor constructed with any argument, positive or not, under any
\* short value of METRICS_MAX_CONCURRENCY, running one metric over a session
\* of up to two spans
MaxEnvLen == 2
MaxConfigMetrics == 1
MaxConfigSessions == 1
MaxConfigSpans == 2
ConfiguredLimits == {NoInt} \cup {Some(n) : n \in -MaxConcurrency..MaxConcurrency}
InitConfig ==
  /\ InitConfigured(Registries(MaxConfigMetrics),
                    SessionSets(MaxConfigSessions, MaxConfigSpans, {TransitionCounts(1)}),
                    {Providers}, ConfiguredLimits, EnvLimits(MaxEnvLen))
  /\ AsideIdle

SpecConfig == InitConfig /\ [][Next]_vars

\* the scheduling loops alone, over batches of several sessions and spans
\* and every handler
InitSched ==
  /\ InitWith(Registries(MaxSchedMetrics),
              SessionSets(MaxSchedSessions, MaxSchedSpans, TransitionValues),
              SUBSET Providers, {NoInt})
  /\ AsideIdle

SpecSched == InitSched /\ [][Schedule]_vars

\* --------------------------- _initialize_metric calls on a shared handler
\* Several compute_metrics invocations share the process's ModelHandler, and
\* each runs _initialize_metric for a metric that declares a provider.  A
\* call can be suspended at its awaits, lines 165 and 175; what lies
\* between two awaits runs without interruption.
ModelClasses == {c \in ClassNames : get_metric(c).provider # None}

Caller(metric_name) ==
  [metric |-> metric_name, pc |-> "get_or_create_model", model |-> 0, ok |-> FALSE]

InitModel ==
  /\ failing = {}
  /\ registry = <<>>
  /\ sessions_set = <<>>
  /\ creatable \in SUBSET Providers
  /\ max_concurrent_tasks = NoInt
  /\ env_limit = Unset
  /\ handler = EmptyHandler
  /\ pc = "start"
  /\ tasks = <<>>
  /\ tpc = <<>>
  /\ results = <<>>
  /\ calls = <<>>
  /\ semaphore = MakeSemaphore(max_concurrent_tasks)
  /\ metric_results = EmptyBuckets
  /\ raised = None
  /\ callers \in UNION {[1..n -> {Caller(c) : c \in ModelClasses}] : n \in 1..MaxCallers}
  /\ AsideIdle

engine == <<registry, sessions_set, creatable, max_concurrent_tasks, env_limit, failing, pc, tasks, tpc,
            results, calls, semaphore, metric_results, raised>>

\* lines 165-170: the handler's get_or_create_model and the test of its result
GetOrCreate(c) ==
  /\ callers[c].pc = "get_or_create_model"
  /\ LET g == get_or_create_model(handler, creatable, get_metric(callers[c].metric).provider)
     IN /\ handler' = g.h
        /\ callers' = [callers EXCEPT ![c].model = g.model,
                         ![c].pc = IF g.model = 0 THEN "create_model" ELSE "init_with_model"]
  /\ UNCHANGED <<engine, aside>>

\* lines 172-174: the metric's own create_model, up to the await of line 175
Fallback(c) ==
  /\ callers[c].pc = "create_model"
  /\ LET m == create_model(get_metric(callers[c].metric), handler)
     IN /\ handler' = m.h
        /\ callers' = [callers EXCEPT ![c].model = m.model,
                         ![c].pc = IF m.model # 0 THEN "set_model" ELSE "init_with_model"]
  /\ UNCHANGED <<engine, aside>>

\* lines 175-179: the handler's set_model
SetModel(c) ==
  /\ callers[c].pc = "set_model"
  /\ handler' = set_model(handler, get_metric(callers[c].metric).provider, callers[c].model)
  /\ callers' = [callers EXCEPT ![c].pc = "init_with_model"]
  /\ UNCHANGED <<engine, aside>>

\* lines 183-190: init_with_model and the return
InitWithModel(c) ==
  /\ callers[c].pc = "init_with_model"
  /\ callers' = [callers EXCEPT
                   ![c].ok = init_with_model(get_metric(callers[c].metric), callers[c].model),
                   ![c].pc = "returned"]
  /\ UNCHANGED <<engine, handler, aside>>

NextModel ==
  \E c \in 1..Len(callers) :
    \/ GetOrCreate(c)
    \/ Fallback(c)
    \/ SetModel(c)
    \/ InitWithModel(c)

SpecModel == InitModel /\ [][NextModel]_vars

\* ------------------------------------------------- registry.py: a registry
\* The classes handed to register_metric: name is __name__, cls tells two
\* classes of one name apart, base says whether the class inherits from
\* BaseMetric.
Descriptor(name, cls, base) == [name |-> name, cls |-> cls, base |-> base]
Descriptors ==
  {Descriptor("A", 1, TRUE), Descriptor("A", 2, TRUE), Descriptor("B", 1, TRUE),
   Descriptor("X", 1, FALSE), Descriptor("A", 3, FALSE)}

\* a dict kept as its items in insertion order
Keys(m) == {m[i].name : i \in 1..Len(m)}
DictSet(m, d) ==
  IF d.name \in Keys(m)
  THEN [i \in 1..Len(m) |-> IF m[i].name = d.name THEN d ELSE m[i]]
  ELSE Append(m, d)

MetricRegistry_register_metric_late_check(m, d) ==
  IF ~d.base THEN [raised |-> "ValueError", _metrics |-> DictSet(m, d)]
  ELSE [raised |-> None, _metrics |-> DictSet(m, d)]

\* register_metric, lines 15-21: the exception raised, and the dict afterwards
MetricRegistry_register_metric(m, d) ==
  IF ~d.base THEN [raised |-> "ValueError", _metrics |-> m]
  ELSE [raised |-> None, _metrics |-> DictSet(m, d)]

\* get_metric, lines 23-25: self._metrics.get(name)
NoDescriptor == Descriptor(None, 0, FALSE)
MetricRegistry_get_metric(m, name) ==
  IF name \in Keys(m) THEN m[CHOOSE i \in 1..Len(m) : m[i].name = name] ELSE NoDescriptor

\* list_metrics, lines 27-29: list(self._metrics.keys())
MetricRegistry_list_metrics(m) == [i \in 1..Len(m) |-> m[i].name]

EngineIdle == InitWith({<<>>}, {<<>>}, {{}}, {NoInt})

InitRegistry ==
  /\ EngineIdle
  /\ NativeIdle
  /\ ParserIdle
  /\ _metrics = <<>>
  /\ reg_log = <<>>

Register(d) ==
  /\ Len(reg_log) < MaxRegCalls
  /\ LET r == MetricRegistry_register_metric(_metrics, d)
     IN /\ _metrics' = r._metrics
        /\ reg_log' = Append(reg_log, [d |-> d, before |-> _metrics, raised |-> r.raised])
  /\ UNCHANGED <<engine, handler, callers, metric_input, metric_output, scan, parsing>>

NextRegistry == \E d \in Descriptors : Register(d)

SpecRegistry == InitRegistry /\ [][NextRegistry]_vars

\* ------------------------------------------------ the native metric bodies
\* The metrics of metrics/span and metrics/session, each called through
\* _safe_compute on one unit.  The data is given by what the bodies look at:
\* the span's entity type, whether its payloads and entity name are filled,
\* whether a status field is found in it, whether the metric has a jury, and
\* the exception an operation of the body raises (None: it raises nothing;
\* otherwise its message, which is empty for an exception built without
\* arguments).
NativeMetrics ==
  {"ToolError", "ToolUtilizationAccuracy", "Groundedness", "ToolErrorRate",
   "CyclesCount", "AgentToAgentInteractions", "AgentToToolInteractions"}
NativeLevel(metric) ==
  IF metric \in {"ToolError", "ToolUtilizationAccuracy"} THEN "span" ELSE "session"
ExceptionMessages == {None, "", "boom"}

MetricInputs ==
  [metric : NativeMetrics, entity_type : {"tool", "agent", "llm"}, filled : BOOLEAN,
   has_status : BOOLEAN, jury : BOOLEAN, exc : ExceptionMessages]

NativeTask(inp) ==
  [metric |-> inp.metric, aggregation_level |-> NativeLevel(inp.metric),
   unit |-> NativeLevel(inp.metric), session_id |-> SessionIds[1],
   span_id |-> IF NativeLevel(inp.metric) = "span" THEN "s1.1" ELSE None,
   context |-> FALSE]

Returned(result) == [raised |-> None, result |-> result]
Raised(message) == [raised |-> message, result |-> NoResult]

\* a result of the body: name, level, value, success, error_message
Native(inp, value, success, err) ==
  MetricResult(inp.metric, NativeLevel(inp.metric), value, success, <<>>, None, err)

\* tool_error.py lines 29-96
ToolError_compute(inp) ==
  IF inp.entity_type # "tool"
  THEN Returned(MetricResult("", "", Sentinel, FALSE, <<>>, None, ""))
  ELSE IF inp.exc # None THEN Raised(inp.exc)
  ELSE IF inp.has_status THEN Returned(Native(inp, Num(1), TRUE, None))
  ELSE Returned(Native(inp, Sentinel, FALSE, ""))

\* tool_utilization_accuracy.py lines 35-98
ToolUtilizationAccuracy_compute(inp) ==
  IF inp.entity_type # "tool" \/ ~inp.filled
  THEN Returned(MetricResult("", "", Sentinel, FALSE, <<SessionIds[1]>>, None, ""))
  ELSE IF inp.jury
    THEN IF inp.exc # None THEN Raised(inp.exc)
         ELSE Returned(MetricResult(inp.metric, "span", Num(1), TRUE,
                                    <<SessionIds[1]>>, None, None))
  ELSE Returned(MetricResult(inp.metric, "span", Sentinel, FALSE, <<SessionIds[1]>>,
                             None, "Please configure your LLM credentials"))

\* groundedness.py lines 33-96: the except clause passes the exception
\* itself as error_message
Groundedness_compute(inp) ==
  IF inp.jury
  THEN IF inp.exc # None THEN Returned(Native(inp, Sentinel, FALSE, inp.exc))
       ELSE Returned(Native(inp, Num(1), TRUE, None))
  ELSE Returned(Native(inp, Sentinel, FALSE, "Please configure your LLM credentials"))

\* tool_error_rate.py lines 23-69, cycles.py lines 29-87,
\* agent_to_agent_interactions.py lines 28-78,
\* agent_to_tool_interactions.py lines 28-76: a try around the whole body
Guarded_compute(inp) ==
  IF inp.exc # None THEN Returned(Native(inp, Sentinel, FALSE, inp.exc))
  ELSE Returned(Native(inp, Num(0), TRUE, None))

Native_compute(inp) ==
  CASE inp.metric = "ToolError" -> ToolError_compute(inp)
    [] inp.metric = "ToolUtilizationAccuracy" -> ToolUtilizationAccuracy_compute(inp)
    [] inp.metric = "Groundedness" -> Groundedness_compute(inp)
    [] OTHER -> Guarded_compute(inp)

\* _safe_compute lines 108-142 around the body
Native_safe_compute(inp) ==
  LET r == Native_compute(inp)
  IN IF r.raised # None THEN ErrorResult(NativeTask(inp), r.raised) ELSE r.result

InitNative ==
  /\ EngineIdle
  /\ RegistryIdle
  /\ ParserIdle
  /\ metric_input \in MetricInputs
  /\ metric_output = NoResult
  /\ scan = ScanIdle

Compute ==
  /\ metric_output = NoResult
  /\ metric_output' = Native_safe_compute(metric_input)
  /\ UNCHANGED <<engine, handler, callers, _metrics, reg_log, metric_input, scan, parsing>>

SpecNative == InitNative /\ [][Compute]_vars

\* ------------------------------- runs in which creating a model can raise
\* one session of at most one span, up to two metrics, a handler that can
\* create a model for every provider or for none
InitResolve ==
  /\ failing \in SUBSET Providers
  /\ registry \in Registries(MaxSchedMetrics)
  /\ sessions_set \in SessionSets(MaxSessions, MaxSpans, {TransitionCounts(1)})
  /\ creatable \in {{}, Providers}
  /\ max_concurrent_tasks = NoInt
  /\ env_limit = Unset
  /\ handler = EmptyHandler
  /\ pc = "start"
  /\ tasks = <<>>
  /\ tpc = <<>>
  /\ results = <<>>
  /\ calls = <<>>
  /\ semaphore = MakeSemaphore(max_concurrent_tasks)
  /\ metric_results = EmptyBuckets
  /\ raised = None
  /\ callers = <<>>
  /\ AsideIdle

SpecResolve == InitResolve /\ [][Next]_vars

\* ------------------------------------------------ the span parser: formats
\* entities/core/data_parser.py.  A raw record is a Python dict: a function
\* from its keys to its values.  A value whose Python type the code looks at
\* carries the type: <<"str", s, n>> is the string s repeated n times,
\* <<"int", n>> an integer, <<"none">> is None.
StrVal(s) == <<"str", s, 1>>
IntVal(n) == <<"int", n>>
NoneVal == <<"none">>

\* d[key] = value on a dict
SetItem(d, key, value) ==
  [k \in DOMAIN d \cup {key} |-> IF k = key THEN value ELSE d[k]]
\* a dict restricted to the keys in K
Restrict(d, K) == [k \in K \cap DOMAIN d |-> d[k]]

\* detect_span_format, lines 38-51
detect_span_format(span) ==
  IF "operationName" \in DOMAIN span /\ "tags" \in DOMAIN span THEN "jaeger"
  ELSE IF "SpanName" \in DOMAIN span /\ "SpanAttributes" \in DOMAIN span THEN "standard"
  ELSE "unknown"

\* the start times of the model and what lines 104-108 make of them
IsoTime == "2024-01-01T00:00:00Z"
HasTAndZ(s) == s \in {IsoTime, "TBZ"}                    \* 'T' in s and 'Z' in s
\* datetime.fromisoformat(s.replace('Z', '+00:00')).timestamp(), <<>> for ValueError
IsoTimestamp(s) == IF s = IsoTime THEN <<"1704067200.0">> ELSE <<>>
\* str(float(s)), <<>> for ValueError
FloatString(s) ==
  IF s = "12" THEN <<"12.0">> ELSE IF s = "1.5" THEN <<"1.5">> ELSE <<>>

\* lines 103-118: the ioa_start_time attribute for a startTime value; a value
\* that is no string raises TypeError at the 'in' test, which is caught
ioa_start_time(start_time_str) ==
  IF start_time_str[1] # "str" THEN start_time_str
  ELSE LET s == start_time_str[2]
           f == IF HasTAndZ(s) THEN IsoTimestamp(s) ELSE FloatString(s)
       IN IF f = <<>> THEN start_time_str ELSE StrVal(f[1])

\* duration_micros * 1000, line 123: an int is multiplied, a string repeated,
\* None raises TypeError
Times(v, k) ==
  IF v[1] = "int" THEN IntVal(v[2] * k)
  ELSE IF v[1] = "str" THEN <<"str", v[2], v[3] * k>>
  ELSE v
CanMultiply(v) == v[1] \in {"int", "str"}

\* converted[to] = span[key] when the record has the key, lines 71-95
Renamed(converted, span, key, to) ==
  IF key \in DOMAIN span THEN SetItem(converted, to, span[key]) ELSE converted

\* the attributes with the trace id as session.id whatever the tags name
AttrsOfOverwriting(span, tags) ==
  IF "traceId" \in DOMAIN span THEN SetItem(tags, "session.id", span["traceId"]) ELSE tags

\* lines 74-83: the attributes, with the trace id as session.id when the
\* tags name neither a session nor an execution
AttrsOf(span, tags) ==
  IF "session.id" \notin DOMAIN tags /\ "execution.id" \notin DOMAIN tags
     /\ "traceId" \in DOMAIN span
  THEN SetItem(tags, "session.id", span["traceId"]) ELSE tags
WithAttrs(converted, span) ==
  IF "tags" \in DOMAIN span
  THEN SetItem(converted, "SpanAttributes", AttrsOf(span, span["tags"])) ELSE converted

\* lines 98-118: Timestamp and the ioa_start_time attribute
WithStartTime(converted, span) ==
  IF "startTime" \in DOMAIN span
  THEN SetItem(SetItem(converted, "Timestamp", span["startTime"]), "SpanAttributes",
               SetItem(IF "SpanAttributes" \in DOMAIN converted
                       THEN converted["SpanAttributes"] ELSE <<>>,
                       "ioa_start_time", ioa_start_time(span["startTime"])))
  ELSE converted

\* lines 68-119: everything but the duration
ConvertFields(span) ==
  WithStartTime(
    Renamed(Renamed(Renamed(Renamed(
      WithAttrs(Renamed(span, span, "operationName", "SpanName"), span),
      span, "serviceName", "ServiceName"), span, "spanId", "SpanId"),
      span, "parentId", "ParentSpanId"), span, "traceId", "TraceId"),
    span)

Converted(value) == [raised |-> None, value |-> value]
ConvertRaises(value) == [raised |-> "TypeError", value |-> value]

\* a conversion that scales the Duration it finds instead of durationMicros
convert_jaeger_to_standard_rescaling(span) ==
  LET c == ConvertFields(span)
      d == IF "Duration" \in DOMAIN span THEN span["Duration"] ELSE span["durationMicros"]
  IN IF "durationMicros" \notin DOMAIN span THEN Converted(c)
     ELSE IF ~CanMultiply(d) THEN ConvertRaises(span)
     ELSE Converted(SetItem(c, "Duration", Times(d, 1000)))

\* convert_jaeger_to_standard, lines 54-125
convert_jaeger_to_standard(span) ==
  LET c == ConvertFields(span)
      d == span["durationMicros"]
  IN IF "durationMicros" \notin DOMAIN span THEN Converted(c)
     ELSE IF ~CanMultiply(d) THEN ConvertRaises(span)
     ELSE Converted(SetItem(c, "Duration", Times(d, 1000)))

\* parse_raw_spans, lines 187-192: one record through detection and conversion
NormalizeRecord(span) ==
  IF detect_span_format(span) = "jaeger" THEN convert_jaeger_to_standard(span)
  ELSE Converted(span)

\* parse_raw_spans, lines 186-192: the loop over the batch
NormalizeBatch(spans) ==
  LET out == [i \in 1..Len(spans) |-> NormalizeRecord(spans[i])]
  IN IF \E i \in 1..Len(spans) : out[i].raised # None
     THEN [raised |-> "TypeError", value |-> <<>>]
     ELSE [raised |-> None, value |-> [i \in 1..Len(spans) |-> out[i].value]]

\* the raw records of the model: every key present or absent
TagSets ==
  { Restrict(("session.id" :> "s0") @@ ("execution.id" :> "e0"), K) :
      K \in SUBSET {"session.id", "execution.id"} }
StartTimes == {StrVal(IsoTime), StrVal("TBZ"), StrVal("12"), StrVal("soon"), IntVal(12)}
Durations == {IntVal(5), StrVal("5"), NoneVal}
IdKeys == {"serviceName", "spanId", "parentId"}
MarkerKeys == {"operationName", "tags", "SpanName", "SpanAttributes"}
OtherKeys == {"traceId", "startTime", "durationMicros", "Duration"}
FullRecord(tags, start, duration) ==
  ("operationName" :> <<"plan", ".agent">>) @@ ("tags" :> tags) @@
  ("SpanName" :> <<"search", ".tool">>) @@ ("SpanAttributes" :> ("session.id" :> "s1")) @@
  ("traceId" :> "t0") @@ ("startTime" :> start) @@
  ("durationMicros" :> duration) @@ ("Duration" :> IntVal(7)) @@
  ("serviceName" :> "svc") @@ ("spanId" :> "i0") @@ ("parentId" :> "p0")
RawRecords(tag_sets) ==
  { Restrict(FullRecord(tags, start, duration), K \cup ids) :
      tags \in tag_sets, start \in StartTimes, duration \in Durations,
      K \in SUBSET (MarkerKeys \cup OtherKeys), ids \in {{}, IdKeys} }

MaxPasses == 2

InitNormalize ==
  /\ EngineIdle
  /\ RegistryIdle
  /\ NativeIdle
  /\ heap = <<>>
  /\ raw_spans \in {<<r>> : r \in RawRecords(TagSets)}
  /\ converted_spans = <<>>
  /\ passes = 0
  /\ span_entities = <<>>
  /\ parse_raised = None
  /\ parser = None
  /\ tool_definitions_by_name = <<>>

\* normalization of the batch, and of what normalization returned
Normalize ==
  /\ passes < MaxPasses
  /\ parse_raised = None
  /\ LET input == IF passes = 0 THEN raw_spans ELSE converted_spans
         n == NormalizeBatch(input)
     IN /\ raw_spans' = input
        /\ converted_spans' = n.value
        /\ parse_raised' = n.raised
  /\ passes' = passes + 1
  /\ UNCHANGED <<engine, handler, callers, _metrics, reg_log, metric_input, metric_output, scan, heap,
                 span_entities, parser, tool_definitions_by_name>>

SpecNormalize == InitNormalize /\ [][Normalize]_vars

\* ------------------------------------------- the span parser: classification
\* A span name is a sequence of pieces of text; only the pieces the parsers
\* look for are told apart.
Lower(piece) ==
  IF piece = ".CHAT" THEN ".chat"
  ELSE IF piece = "Autogen Create " THEN "autogen create "
  ELSE piece
\* name.lower().endswith(suffix)
EndsWith(name, suffix) == Len(name) > 0 /\ Lower(name[Len(name)]) = suffix
\* substring in name.lower()
Contains(name, substring) == \E i \in 1..Len(name) : Lower(name[i]) = substring

\* entities parser, lines 204-216: the suffix masks, applied in dict order
SuffixType(name) ==
  IF EndsWith(name, ".chat") THEN "llm"
  ELSE IF EndsWith(name, ".tool") THEN "tool"
  ELSE IF EndsWith(name, ".agent") THEN "agent"
  ELSE IF EndsWith(name, ".workflow") THEN "workflow"
  ELSE IF EndsWith(name, ".graph") THEN "graph"
  ELSE IF EndsWith(name, ".task") THEN "task"
  ELSE None

\* lines 203-225 (lines 227-257 change nothing): the later assignment wins
entity_type_of(name) ==
  IF Contains(name, "autogen create ") THEN "workflow"
  ELSE IF Contains(name, "autogen process ") THEN "agent"
  ELSE SuffixType(name)

\* core parser, lines 42-53
core_entity_type_of(name) ==
  IF EndsWith(name, ".chat") THEN "llm"
  ELSE IF EndsWith(name, ".tool") THEN "tool"
  ELSE IF EndsWith(name, ".agent") THEN "agent"
  ELSE None

\* ------------------------------------------------ the span parser: payloads
\* Python values beyond StrVal, IntVal and NoneVal: a list, a mapping (a
\* function from its keys), and {"value": v}
ListVal(items) == <<"list", items>>
DictVal(f) == <<"dict", f>>
Wrapped(v) == <<"wrapped", v>>
IsNone(v) == v[1] = "none"
IsStr(v) == v[1] = "str"
IsMapping(v) == v[1] \in {"dict", "wrapped"}

\* json.loads on the strings of the model; <<>> where it raises
JsonObject == "{\"a\": 1}"
JsonArray == "[1, 2]"
JsonString == "\"hi\""
Traceback == "Traceback (most recent call last)"
JsonErrorArray == "[\"Traceback (most recent call last)\"]"
JsonErrorString == "\"HTTPError: 500\""
JsonNestedError == "{\"a\": {\"b\": [\"An Exception occurred\"]}}"
json_loads(s) ==
  IF s = JsonObject THEN <<DictVal("a" :> IntVal(1))>>
  ELSE IF s = JsonString THEN <<StrVal("hi")>>
  ELSE IF s = JsonArray THEN <<ListVal(<<IntVal(1), IntVal(2)>>)>>
  ELSE IF s = JsonErrorArray THEN <<ListVal(<<StrVal(Traceback)>>)>>
  ELSE IF s = JsonErrorString THEN <<StrVal("HTTPError: 500")>>
  ELSE IF s = JsonNestedError
  THEN <<DictVal("a" :> DictVal("b" :> ListVal(<<StrVal("An Exception occurred")>>)))>>
  ELSE IF s = "5" THEN <<IntVal(5)>>
  ELSE IF s = "null" THEN <<NoneVal>>
  ELSE <<>>

\* bool(value) for the values of the model
Truthy(v) ==
  IF v[1] = "none" THEN FALSE
  ELSE IF v[1] = "str" THEN v[2] # "" /\ v[3] > 0
  ELSE IF v[1] = "int" THEN v[2] # 0
  ELSE IF v[1] = "dict" THEN DOMAIN v[2] # {}
  ELSE TRUE

\* safe_parse_json, lines 12-16: json.loads raises TypeError on a value that
\* is no string, and every exception gives None
safe_parse_json(value) ==
  IF ~Truthy(value) THEN NoneVal
  ELSE IF ~IsStr(value) THEN NoneVal
  ELSE LET p == json_loads(value[2]) IN IF p = <<>> THEN NoneVal ELSE p[1]

\* _process_generic_payload, lines 495-508
_process_generic_payload(raw_payload) ==
  IF IsNone(raw_payload) THEN NoneVal
  ELSE LET parsed == IF IsStr(raw_payload) THEN safe_parse_json(raw_payload)
                     ELSE raw_payload
       IN IF IsNone(parsed) THEN Wrapped(raw_payload) ELSE parsed

\* str.lower() on the strings of the model
LowerCase(s) ==
  IF s = Traceback THEN "traceback (most recent call last)"
  ELSE IF s = "HTTPError: 500" THEN "httperror: 500"
  ELSE IF s = "An Exception occurred" THEN "an exception occurred"
  ELSE s
\* any(e in value for e in ["traceback", "exception", "httperror"])
HasMarker(value) ==
  value \in {"traceback (most recent call last)", "httperror: 500", "an exception occurred"}

\* contains_error_like_pattern, lines 20-35: the string leaves under the
\* values of mappings and the items of lists, lower-cased
RECURSIVE contains_error_like_pattern(_)
contains_error_like_pattern(d) ==
  IF d[1] = "dict" THEN \E k \in DOMAIN d[2] : contains_error_like_pattern(d[2][k])
  ELSE IF d[1] = "wrapped" THEN contains_error_like_pattern(d[2])
  ELSE IF d[1] = "list" THEN \E j \in 1..Len(d[2]) : contains_error_like_pattern(d[2][j])
  ELSE IF d[1] = "str" THEN HasMarker(LowerCase(d[2]))
  ELSE FALSE

\* _check_error_status, lines 547-559
ErrorKey == "traceloop.entity.error"
_check_error_status(attrs, output_payload) ==
  IF ErrorKey \in DOMAIN attrs /\ Truthy(attrs[ErrorKey]) THEN TRUE
  ELSE IsMapping(output_payload) /\ contains_error_like_pattern(output_payload)

\* a payload check that lets every value through
_ensure_dict_payload_unchecked(payload) == payload

\* _ensure_dict_payload, lines 562-571
_ensure_dict_payload(payload) ==
  IF IsNone(payload) THEN NoneVal
  ELSE IF IsMapping(payload) THEN payload
  ELSE Wrapped(payload)

\* the attribute keys whose values the parsers parse or test; the values
\* under every other key of the model are plain strings
PromptKey == "gen_ai.prompt.0.content"
CompletionKey == "gen_ai.completion.0.content"
InputKeys == {"traceloop.entity.input", "ioa_observe.entity.input"}
OutputKeys == {"traceloop.entity.output", "ioa_observe.entity.output"}
MaxFunctions == 2
FunctionKey(i, part) ==
  IF part = "name"
  THEN <<"llm.request.functions.0.name", "llm.request.functions.1.name",
         "llm.request.functions.2.name", "llm.request.functions.3.name">>[i + 1]
  ELSE IF part = "description"
  THEN <<"llm.request.functions.0.description", "llm.request.functions.1.description",
         "llm.request.functions.2.description", "llm.request.functions.3.description">>[i + 1]
  ELSE <<"llm.request.functions.0.parameters", "llm.request.functions.1.parameters",
         "llm.request.functions.2.parameters", "llm.request.functions.3.parameters">>[i + 1]
ParsedKeys ==
  InputKeys \cup OutputKeys \cup {PromptKey, CompletionKey} \cup
  {FunctionKey(i, part) : i \in 0..MaxFunctions, part \in {"description", "parameters"}}

\* pd.json_normalize and dropna, lines 198-200 and 322: an attribute that is
\* None is dropped, one that is a mapping is spread over dotted keys of its
\* own, so neither is found under its key
Flattened(attrs) ==
  Restrict(attrs, {k \in DOMAIN attrs :
                     k \in ParsedKeys => (~IsNone(attrs[k]) /\ attrs[k][1] # "dict")})

\* _process_llm_payloads, lines 458-478: the prompt attributes as they are,
\* the completion attributes parsed where they are strings that parse
_process_llm_payloads(attrs) ==
  LET completion(v) == IF IsStr(v) /\ ~IsNone(safe_parse_json(v))
                       THEN safe_parse_json(v) ELSE v
  IN [input_payload |-> DictVal(Restrict(attrs, {PromptKey})),
      output_payload |->
        DictVal([k \in {CompletionKey} \cap DOMAIN attrs |-> completion(attrs[k])])]

\* PAYLOAD_CONFIG, lines 268-305
PAYLOAD_CONFIG(entity_type) ==
  IF entity_type = "llm"
  THEN [entity_name_key |-> "gen_ai.response.model", input_key |-> None, output_key |-> None]
  ELSE IF entity_type = "agent"
  THEN [entity_name_key |-> "ioa_observe.entity.name",
        input_key |-> "ioa_observe.entity.input", output_key |-> "ioa_observe.entity.output"]
  ELSE IF entity_type \in {"workflow", "graph"}
  THEN [entity_name_key |-> "ioa_observe.workflow.name",
        input_key |-> "traceloop.entity.input", output_key |-> "traceloop.entity.output"]
  ELSE [entity_name_key |-> "traceloop.entity.name",
        input_key |-> "traceloop.entity.input", output_key |-> "traceloop.entity.output"]

\* ----------------------------------------- the span parser: tool definitions
ToolDefinition(description, parameters) == <<"def", description, parameters>>

\* a table in which a later definition of a name replaces the earlier one
AddDefinitionOverwriting(tool_definitions, name, definition) ==
  IF name # "" THEN SetItem(tool_definitions, name, definition) ELSE tool_definitions

\* lines 448-452 (core parser lines 64-68)
AddDefinition(tool_definitions, name, definition) ==
  IF name # "" /\ name \notin DOMAIN tool_definitions
  THEN SetItem(tool_definitions, name, definition)
  ELSE tool_definitions

\* lines 440-453 (core parser lines 56-70): the indexed triples of one llm
\* record, scanned from index i while the name key is there
RECURSIVE ScanFunctions(_, _, _)
ScanFunctions(attrs, i, tool_definitions) ==
  IF i > MaxFunctions THEN tool_definitions
  ELSE IF FunctionKey(i, "name") \notin DOMAIN attrs THEN tool_definitions
  ELSE LET name == attrs[FunctionKey(i, "name")]
           description == DictGet(attrs, FunctionKey(i, "description"), NoneVal)
           parameters == safe_parse_json(DictGet(attrs, FunctionKey(i, "parameters"), NoneVal))
       IN ScanFunctions(attrs, i + 1,
            AddDefinition(tool_definitions, name, ToolDefinition(description, parameters)))

\* _extract_tool_definitions, lines 427-455: the llm rows in batch order
RECURSIVE ExtractFrom(_, _, _)
ExtractFrom(rows, r, tool_definitions) ==
  IF r > Len(rows) THEN tool_definitions
  ELSE ExtractFrom(rows, r + 1,
         IF rows[r].entity_type = "llm"
         THEN ScanFunctions(rows[r].attrs, 0, tool_definitions)
         ELSE tool_definitions)
_extract_tool_definitions(rows) == ExtractFrom(rows, 1, <<>>)

\* -------------------------------------------------- the span parser: rows
\* row.get(key, default) and attrs.get(key, default)
Get(d, key, default) == IF key \in DOMAIN d THEN d[key] ELSE default

\* lines 334-349: the agent name taken from an "autogen process <name>_..." span name
AutogenName(name) ==
  IF \E i \in 1..Len(name) - 1 : name[i] = "autogen process "
  THEN name[(CHOOSE i \in 1..Len(name) - 1 : name[i] = "autogen process ") + 1]
  ELSE "unknown"

\* SpanEntity of entities/models/span.py: the fields the parser passes
SpanEntity(entity_type, span_id, entity_name, input_payload, output_payload, tool_definition, session_id, contains_error) ==
  [entity_type |-> entity_type, span_id |-> span_id, entity_name |-> entity_name,
   input_payload |-> input_payload, output_payload |-> output_payload,
   tool_definition |-> tool_definition, session_id |-> session_id,
   contains_error |-> contains_error]

\* attrs.get("session.id") or attrs.get("execution.id"), line 414
SessionIdOf(attrs) ==
  IF Get(attrs, "session.id", "") # "" THEN attrs["session.id"]
  ELSE Get(attrs, "execution.id", None)

\* lines 315-422: the SpanEntity of one classified row
RowEntity(row, tool_definitions) ==
  LET attrs == row.attrs
      entity_type == row.entity_type
      cfg == PAYLOAD_CONFIG(entity_type)
      named == Get(attrs, cfg.entity_name_key, "unknown")
      entity_name == IF entity_type = "agent" /\ named = "unknown"
                     THEN AutogenName(row.SpanName) ELSE named
      llm == _process_llm_payloads(attrs)
      input_payload == IF entity_type = "llm" THEN llm.input_payload
                       ELSE _process_generic_payload(Get(attrs, cfg.input_key, NoneVal))
      output_payload == IF entity_type = "llm" THEN llm.output_payload
                        ELSE _process_generic_payload(Get(attrs, cfg.output_key, NoneVal))
      wrapped_output == IF entity_type = "workflow" /\ IsStr(output_payload)
                        THEN Wrapped(output_payload) ELSE output_payload
      tool_definition == IF entity_type = "tool"
                         THEN Get(tool_definitions, entity_name, NoneVal)
                         ELSE NoneVal
  IN SpanEntity(entity_type, Get(row.span, "SpanId", ""), entity_name,
                _ensure_dict_payload(input_payload), _ensure_dict_payload(wrapped_output),
                tool_definition, SessionIdOf(attrs),
                _check_error_status(attrs, wrapped_output))

\* SelectSeq with the row kept in scope
RECURSIVE Classified(_, _)
Classified(spans, i) ==
  IF i > Len(spans) THEN <<>>
  ELSE LET name == Get(spans[i], "SpanName", <<>>)
           type == entity_type_of(name)
           row == [span |-> spans[i], SpanName |-> name, entity_type |-> type,
                   attrs |-> Flattened(Get(spans[i], "SpanAttributes", <<>>))]
       IN (IF type = None THEN <<>> ELSE <<row>>) \o Classified(spans, i + 1)

Parsed(value, table) == [raised |-> None, value |-> value, table |-> table]
ParseRaises(exception, table) == [raised |-> exception, value |-> <<>>, table |-> table]

\* lines 312-424: the row loop
BuildEntities(rows, table) ==
  Parsed([r \in 1..Len(rows) |-> RowEntity(rows[r], table)], table)

\* lines 259-310: nothing classified returns [], else the table is built
ParseRows(rows) ==
  IF rows = <<>> THEN Parsed(<<>>, <<>>)
  ELSE BuildEntities(rows, _extract_tool_definitions(rows))

\* the positions of the records that have the key: a DataFrame column
\* exists when some record has it
WithKey(df, key) == {i \in 1..Len(df) : key \in DOMAIN df[i]}

\* lines 195-262: the DataFrame and its columns. A record without
\* SpanAttributes leaves NaN in the column, which fillna({}) does not fill:
\* pd.json_normalize makes an empty row of it where it takes its simple path
\* (skips_nan) and raises AttributeError where it does not; the installed
\* pandas decides which.
ParseFrame(df, skips_nan) ==
  \* line 198: no such column when no record has the key
  IF WithKey(df, "SpanAttributes") = {} THEN ParseRaises("KeyError", <<>>)
  \* lines 198-199
  ELSE IF WithKey(df, "SpanAttributes") # 1..Len(df) /\ ~skips_nan
  THEN ParseRaises("AttributeError", <<>>)
  \* line 203
  ELSE IF WithKey(df, "SpanName") = {} THEN ParseRaises("KeyError", <<>>)
  ELSE ParseRows(Classified(df, 1))

\* lines 185-192: a conversion that raises ends the call
ParseNormalized(n, skips_nan) ==
  IF n.raised # None THEN ParseRaises(n.raised, <<>>) ELSE ParseFrame(n.value, skips_nan)

\* parse_raw_spans of entities/core/data_parser.py, lines 172-424, with
\* either pandas
ParseBatch(spans, skips_nan) ==
  IF spans = <<>> THEN Parsed(<<>>, <<>>)
  ELSE ParseNormalized(NormalizeBatch(spans), skips_nan)

\* parse_raw_spans of entities/core/data_parser.py, lines 172-424
parse_raw_spans(spans) == ParseBatch(spans, TRUE)

\* ------------------------------------------------------- the core parser
\* SpanEntity of models/span.py, lines 9-24: entity_type is one of three
\* literals and a payload is Optional[Dict[str, Any]]
SpanEntityValid(e) ==
  /\ e.entity_type \in {"agent", "tool", "llm"}
  /\ IsNone(e.input_payload) \/ IsMapping(e.input_payload)
  /\ IsNone(e.output_payload) \/ IsMapping(e.output_payload)

\* core/data_parser.py lines 72-143: the SpanEntity of one classified record
CoreEntity(span, entity_type, tool_definitions) ==
  LET attrs == Get(span, "SpanAttributes", <<>>)
      entity_name ==
        IF entity_type = "tool" THEN Get(attrs, "traceloop.entity.name", "unknown")
        ELSE IF entity_type = "llm" THEN Get(attrs, "gen_ai.response.model", "unknown")
        ELSE Get(attrs, "ioa_observe.entity.name", "unknown")
      tool_definition == IF entity_type = "tool"
                         THEN Get(tool_definitions, entity_name, NoneVal)
                         ELSE NoneVal
      output_payload ==
        IF entity_type = "llm" THEN DictVal(Restrict(attrs, {CompletionKey}))
        ELSE IF entity_type = "agent"
        THEN safe_parse_json(Get(attrs, "ioa_observe.entity.output", NoneVal))
        ELSE safe_parse_json(Get(attrs, "traceloop.entity.output", NoneVal))
      input_payload ==
        IF entity_type = "llm" THEN DictVal(Restrict(attrs, {PromptKey}))
        ELSE IF entity_type = "agent"
        THEN safe_parse_json(Get(attrs, "ioa_observe.entity.input", NoneVal))
        ELSE safe_parse_json(Get(attrs, "traceloop.entity.input", NoneVal))
  IN SpanEntity(entity_type, Get(span, "SpanId", ""), entity_name,
                input_payload, output_payload, tool_definition, SessionIdOf(attrs),
                _check_error_status(attrs, output_payload))

\* core/data_parser.py lines 39-145: the loop, with the table it fills on the way
RECURSIVE CoreLoop(_, _, _, _)
CoreLoop(raw, i, tool_definitions, out) ==
  IF i > Len(raw) THEN Parsed(out, tool_definitions)
  ELSE LET span == raw[i]
           attrs == Get(span, "SpanAttributes", <<>>)
           entity_type == core_entity_type_of(Get(span, "SpanName", <<>>))
           table == IF entity_type = "llm"
                    THEN ScanFunctions(attrs, 0, tool_definitions)
                    ELSE tool_definitions
           e == CoreEntity(span, entity_type, table)
       IN IF entity_type = None THEN CoreLoop(raw, i + 1, tool_definitions, out)
          ELSE IF ~SpanEntityValid(e) THEN ParseRaises("ValidationError", table)
          ELSE CoreLoop(raw, i + 1, table, Append(out, e))

\* parse_raw_spans of core/data_parser.py, lines 35-147
core_parse_raw_spans(raw) == CoreLoop(raw, 1, <<>>, <<>>)

\* ----------------------------------------------------- batches and parsing
Canonical(id, name, attrs) ==
  ("SpanName" :> name) @@ ("SpanAttributes" :> attrs) @@ ("SpanId" :> id)
Legacy(id, name, attrs) ==
  ("operationName" :> name) @@ ("tags" :> attrs) @@ ("spanId" :> id)
SpanIds == <<"i1", "i2", "i3">>

\* span names of one or two pieces
Pieces ==
  {"plan", ".chat", ".tool", ".agent", ".workflow", ".graph", ".task", ".CHAT",
   "autogen process ", "Autogen Create "}
Prefixes == {"plan", ".chat", "autogen process ", "Autogen Create "}
Names(pieces) == {<<p>> : p \in pieces} \cup {<<p, q>> : p \in Prefixes, q \in pieces}
MaxNamed == 2
NameBatches(max) ==
  UNION { { [i \in 1..n |->
              IF i = 1 /\ legacy
              THEN Legacy(SpanIds[i], names[i], "session.id" :> "s1")
              ELSE Canonical(SpanIds[i], names[i], "session.id" :> "s1")] :
            names \in [1..n -> Names(Pieces)], legacy \in BOOLEAN } : n \in 1..max }

\* llm records with up to MaxFunctions indexed triples, and tool records
NamedDefinitions ==
  { <<"search", "d1">>, <<"search", "d2">>, <<"calc", "d1">>, <<"", "d1">> }
FunctionAttrs(triples) ==
  [k \in {FunctionKey(i, part) : i \in 0..Len(triples) - 1,
                                 part \in {"name", "description", "parameters"}} |->
     LET i == CHOOSE j \in 0..Len(triples) - 1 :
                k \in {FunctionKey(j, part) : part \in {"name", "description", "parameters"}}
     IN IF k = FunctionKey(i, "name") THEN triples[i + 1][1]
        ELSE IF k = FunctionKey(i, "description") THEN StrVal(triples[i + 1][2])
        ELSE StrVal(JsonObject)]
LlmAttrs(max) == { FunctionAttrs(t) : t \in UNION {[1..k -> NamedDefinitions] : k \in 0..max} }
ToolAttrs == { "traceloop.entity.name" :> name : name \in {"search", "calc"} }
MaxTooled == 3
ToolBatches(max) ==
  UNION { { [i \in 1..n |->
              IF kinds[i].llm
              THEN Canonical(SpanIds[i], <<"openai", ".chat">>, kinds[i].attrs)
              ELSE Canonical(SpanIds[i], <<"run", ".tool">>, kinds[i].attrs)] :
            kinds \in [1..n -> {[llm |-> TRUE, attrs |-> a] : a \in LlmAttrs(MaxFunctions)} \cup
                               {[llm |-> FALSE, attrs |-> a] : a \in ToolAttrs}] } :
          n \in 1..max }

\* one record of each entity type with every kind of raw payload value
RawValues ==
  {StrVal(JsonObject), StrVal(JsonArray), StrVal("5"), StrVal("null"), StrVal(JsonString),
   StrVal(""), StrVal("plain text"), IntVal(5), IntVal(0), ListVal(<<StrVal("x")>>),
   DictVal("a" :> IntVal(1)), NoneVal}
Suffixes == {".chat", ".tool", ".agent", ".workflow", ".graph", ".task"}
PayloadAttrs(suffix, input, output) ==
  LET type == SuffixType(<<suffix>>)
      input_key == IF type = "llm" THEN PromptKey ELSE PAYLOAD_CONFIG(type).input_key
      output_key == IF type = "llm" THEN CompletionKey ELSE PAYLOAD_CONFIG(type).output_key
  IN (IF input = <<>> THEN <<>> ELSE input_key :> input[1]) @@
     (IF output = <<>> THEN <<>> ELSE output_key :> output[1])
PayloadBatches(values) ==
  { << Canonical(SpanIds[1], <<"step", suffix>>, PayloadAttrs(suffix, input, output)) >> :
      suffix \in Suffixes,
      input \in {<<>>} \cup {<<v>> : v \in values},
      output \in {<<>>} \cup {<<v>> : v \in values} }

\* records of unknown shape (a marker field missing) next to a canonical and
\* a legacy tool record
ShapedRecords(id) ==
  { "SpanId" :> id,
    ("SpanName" :> <<"run", ".tool">>) @@ ("SpanId" :> id),
    ("SpanAttributes" :> ("session.id" :> "s1")) @@ ("SpanId" :> id),
    ("operationName" :> <<"run", ".tool">>) @@ ("spanId" :> id),
    ("operationName" :> <<"run", ".tool">>) @@ ("SpanAttributes" :> ("session.id" :> "s1"))
      @@ ("SpanId" :> id),
    Canonical(id, <<"run", ".tool">>, "session.id" :> "s1"),
    Legacy(id, <<"run", ".agent">>, "session.id" :> "s1") }
MaxShaped == 2
ShapeBatches(max) ==
  UNION { { [i \in 1..n |-> records[i]] :
            records \in {r \in [1..n -> UNION {ShapedRecords(SpanIds[j]) : j \in 1..n}] :
                           \A i \in 1..n : r[i] \in ShapedRecords(SpanIds[i])} } :
          n \in 1..max }

\* records of two sessions, named by session.id or by execution.id, some of
\* them under a name that no rule classifies; the legacy ones with and
\* without a trace id, their tags naming a session, an execution, both or none
SessionAttrs == {"session.id" :> "s1", "session.id" :> "s2", "execution.id" :> "s2"}
LegacyTags ==
  { Restrict(("session.id" :> "s1") @@ ("execution.id" :> "s2"), K) :
      K \in SUBSET {"session.id", "execution.id"} }
SessionRecords(id) ==
  { Canonical(id, name, attrs) :
      name \in {<<"run", ".tool">>, <<"flow", ".workflow">>, <<"plan">>},
      attrs \in SessionAttrs } \cup
  { Legacy(id, <<"run", ".tool">>, tags) @@ trace :
      tags \in LegacyTags, trace \in {<<>>, "traceId" :> "t0"} }
MaxGrouped == 3
SessionBatches(max) ==
  UNION { {r \in [1..n -> UNION {SessionRecords(SpanIds[j]) : j \in 1..n}] :
             \A i \in 1..n : r[i] \in SessionRecords(SpanIds[i])} : n \in 1..max }

\* one record of each of four entity types with an output that holds an
\* error marker at some depth, or none, and with or without the error attribute
ErrorOutputs ==
  {StrVal(JsonErrorArray), StrVal(JsonErrorString), StrVal(JsonNestedError), StrVal(Traceback),
   StrVal(JsonObject), StrVal("plain text"), ListVal(<<StrVal("An Exception occurred")>>)}
ErrorAttrs == {<<>>, ErrorKey :> StrVal("boom"), ErrorKey :> StrVal("")}
ErrorBatches(outputs) ==
  { << Canonical(SpanIds[1], <<"step", suffix>>,
                 PayloadAttrs(suffix, <<>>, output) @@ error) >> :
      suffix \in {".chat", ".tool", ".agent", ".workflow"},
      output \in {<<>>} \cup {<<v>> : v \in outputs},
      error \in ErrorAttrs }

InitParse ==
  /\ EngineIdle
  /\ RegistryIdle
  /\ NativeIdle
  /\ heap = <<>>
  /\ raw_spans \in NameBatches(MaxNamed) \cup ToolBatches(MaxTooled)
                   \cup PayloadBatches(RawValues) \cup ShapeBatches(MaxShaped)
                   \cup SessionBatches(MaxGrouped) \cup ErrorBatches(ErrorOutputs)
  /\ converted_spans = <<>>
  /\ passes = 0
  /\ span_entities = <<>>
  /\ parse_raised = None
  /\ parser = None
  /\ tool_definitions_by_name = <<>>

\* what the call returned or raised
Returns(p) ==
  /\ span_entities' = p.value
  /\ parse_raised' = p.raised
  /\ tool_definitions_by_name' = p.table

\* parse_raw_spans of entities/core/data_parser.py on the batch
Parse ==
  /\ parser = None
  /\ parser' = "entities"
  /\ converted_spans' = NormalizeBatch(raw_spans).value
  /\ \E skips_nan \in BOOLEAN : Returns(ParseBatch(raw_spans, skips_nan))
  /\ passes' = 1
  /\ UNCHANGED <<engine, handler, callers, _metrics, reg_log, metric_input, metric_output, scan, heap,
                 raw_spans>>

\* parse_raw_spans of core/data_parser.py on the batch
ParseCore ==
  /\ parser = None
  /\ parser' = "core"
  /\ Returns(core_parse_raw_spans(raw_spans))
  /\ UNCHANGED <<engine, handler, callers, _metrics, reg_log, metric_input, metric_output, scan, heap,
                 raw_spans, converted_spans, passes>>

NextParse == Parse \/ ParseCore

SpecParse == InitParse /\ [][NextParse]_vars

\* ------------------------------------------------- the span parser: objects
\* The batch as Python objects, to tell a write into a copy from a write into
\* the caller's record: heap[a] is the dict at address a, a function from its
\* keys, and a value that is itself a dict is the reference Ref(b) to it.
\* raw_spans and converted_spans are then lists of references.
Ref(a) == <<"ref", a>>
IsRef(v) == v[1] = "ref"
NaN == <<"nan">>

\* a copy that is the dict itself
dict_copy_aliasing(h, a) == [heap |-> h, at |-> a]

\* dict.copy(), lines 68 and 75: a new dict holding the same items
dict_copy(h, a) == [heap |-> Append(h, h[a]), at |-> Len(h) + 1]
\* heap[a][key] = value
Store(h, a, key, value) == [h EXCEPT ![a] = SetItem(@, key, value)]

\* converted[to] = span[key] when the record has the key, lines 71-95
StoreRenamed(h, s, c, key, to) ==
  IF key \in DOMAIN h[s] THEN Store(h, c, to, h[s][key]) ELSE h

\* lines 74-83: attrs is a copy of the tags, the trace id is written into it
\* as session.id, and converted refers to it
StoreAttrs(p, s, c) ==
  Store(IF "session.id" \notin DOMAIN p.heap[p.at] /\ "execution.id" \notin DOMAIN p.heap[p.at]
           /\ "traceId" \in DOMAIN p.heap[s]
        THEN Store(p.heap, p.at, "session.id", p.heap[s]["traceId"])
        ELSE p.heap,
        c, "SpanAttributes", Ref(p.at))
StoreTags(h, s, c) ==
  IF "tags" \in DOMAIN h[s] THEN StoreAttrs(dict_copy(h, h[s]["tags"][2]), s, c) ELSE h

\* lines 112-113: converted gets an empty mapping when it has none
StoreMapping(h, c) ==
  IF "SpanAttributes" \in DOMAIN h[c] THEN h
  ELSE Store(Append(h, <<>>), c, "SpanAttributes", Ref(Len(h) + 1))
\* line 114: the write through converted["SpanAttributes"]
StoreStartAttr(h, s, c) ==
  Store(h, h[c]["SpanAttributes"][2], "ioa_start_time", ioa_start_time(h[s]["startTime"]))
\* lines 98-118
StoreStartTime(h, s, c) ==
  IF "startTime" \in DOMAIN h[s]
  THEN StoreStartAttr(StoreMapping(Store(h, c, "Timestamp", h[s]["startTime"]), c), s, c)
  ELSE h

\* lines 70-118 on the record at s and its copy at c
StoreFields(h, s, c) ==
  StoreStartTime(
    StoreRenamed(StoreRenamed(StoreRenamed(StoreRenamed(
      StoreTags(StoreRenamed(h, s, c, "operationName", "SpanName"), s, c),
      s, c, "serviceName", "ServiceName"), s, c, "spanId", "SpanId"),
      s, c, "parentId", "ParentSpanId"), s, c, "traceId", "TraceId"),
    s, c)

ObjectResult(exception, h, c) == [raised |-> exception, heap |-> h, at |-> c]
\* lines 121-125
StoreDuration(h, s, c) ==
  IF "durationMicros" \notin DOMAIN h[s] THEN ObjectResult(None, h, c)
  ELSE IF ~CanMultiply(h[s]["durationMicros"]) THEN ObjectResult("TypeError", h, c)
  ELSE ObjectResult(None, Store(h, c, "Duration", Times(h[s]["durationMicros"], 1000)), c)
ConvertCopy(p, s) == StoreDuration(StoreFields(p.heap, s, p.at), s, p.at)

\* convert_jaeger_to_standard, lines 54-125, on the record at address s
ConvertObject(h, s) == ConvertCopy(dict_copy(h, s), s)

ListResult(exception, h, converted, entities) ==
  [raised |-> exception, heap |-> h, converted |-> converted, value |-> entities]

\* parse_raw_spans, lines 186-192: a legacy record is replaced by its
\* conversion, any other record goes into converted_spans itself
RECURSIVE NormalizeObjects(_, _, _, _)
RECURSIVE AppendConverted(_, _, _, _)
NormalizeObjects(h, spans, i, out) ==
  IF i > Len(spans) THEN ListResult(None, h, out, <<>>)
  ELSE IF detect_span_format(h[spans[i][2]]) = "jaeger"
  THEN AppendConverted(ConvertObject(h, spans[i][2]), spans, i, out)
  ELSE NormalizeObjects(h, spans, i + 1, Append(out, spans[i]))
AppendConverted(r, spans, i, out) ==
  IF r.raised # None THEN ListResult(r.raised, r.heap, out, <<>>)
  ELSE NormalizeObjects(r.heap, spans, i + 1, Append(out, Ref(r.at)))

\* line 195: the columns of the frame are the keys of all records
Columns(h, refs) == UNION {DOMAIN h[refs[i][2]] : i \in 1..Len(refs)}
RowType(h, refs, i) == entity_type_of(Get(h[refs[i][2]], "SpanName", <<>>))
\* line 378, row.to_dict(): a new dict of the row's columns, NaN where the
\* record has no such key
RowDict(h, refs, i) ==
  [k \in Columns(h, refs) \cup {"entity_type"} |->
     IF k = "entity_type" THEN StrVal(RowType(h, refs, i))
     ELSE IF k \in DOMAIN h[refs[i][2]] THEN h[refs[i][2]][k] ELSE NaN]
\* lines 382-393: the legacy names beside the canonical ones
Compat(d, key, to) ==
  IF key \in DOMAIN d /\ to \notin DOMAIN d THEN SetItem(d, to, d[key]) ELSE d
raw_span_dict(row) ==
  Compat(Compat(Compat(Compat(Compat(Compat(row,
    "SpanAttributes", "tags"), "SpanName", "operationName"), "ServiceName", "serviceName"),
    "SpanId", "spanId"), "ParentSpanId", "parentId"), "TraceId", "traceId")

\* lines 312-424: the row loop, as far as it makes objects
RECURSIVE BuildObjects(_, _, _, _)
BuildObjects(h, refs, i, out) ==
  IF i > Len(refs) THEN ListResult(None, h, refs, out)
  ELSE IF RowType(h, refs, i) = None THEN BuildObjects(h, refs, i + 1, out)
  ELSE BuildObjects(Append(h, raw_span_dict(RowDict(h, refs, i))), refs, i + 1,
                    Append(out, [entity_type |-> RowType(h, refs, i),
                                 raw_span_data |-> Ref(Len(h) + 1)]))

\* lines 195-265 on the converted records
FrameObjects(n, skips_nan) ==
  IF n.raised # None THEN n
  ELSE IF "SpanAttributes" \notin Columns(n.heap, n.converted)
  THEN ListResult("KeyError", n.heap, n.converted, <<>>)
  ELSE IF ~skips_nan /\ \E i \in 1..Len(n.converted) :
                           "SpanAttributes" \notin DOMAIN n.heap[n.converted[i][2]]
  THEN ListResult("AttributeError", n.heap, n.converted, <<>>)
  ELSE IF "SpanName" \notin Columns(n.heap, n.converted)
  THEN ListResult("KeyError", n.heap, n.converted, <<>>)
  ELSE BuildObjects(n.heap, n.converted, 1, <<>>)

\* parse_raw_spans, lines 172-424, on a list of references
ParseObjects(h, spans, skips_nan) ==
  IF spans = <<>> THEN ListResult(None, h, <<>>, <<>>)
  ELSE FrameObjects(NormalizeObjects(h, spans, 1, <<>>), skips_nan)

\* the caller's objects: attribute mappings first, then the records that
\* refer to them under tags and SpanAttributes
Mappings ==
  { Restrict(("session.id" :> StrVal("s1")) @@ ("execution.id" :> StrVal("e1")), K) :
      K \in SUBSET {"session.id", "execution.id"} }
ObjectKeys ==
  {"operationName", "tags", "SpanName", "SpanAttributes", "traceId", "startTime",
   "durationMicros"}
FullObject(name, m, duration) ==
  ("operationName" :> name) @@ ("tags" :> Ref(m)) @@
  ("SpanName" :> name) @@ ("SpanAttributes" :> Ref(m)) @@
  ("traceId" :> StrVal("t0")) @@ ("startTime" :> StrVal(IsoTime)) @@
  ("durationMicros" :> duration) @@ ("spanId" :> StrVal("i0"))
ObjectNames == {<<"search", ".tool">>, <<"plan">>}
\* one record of any shape whose tags and SpanAttributes are one mapping
SingleHeaps ==
  { [heap |-> <<m, Restrict(FullObject(<<"search", ".tool">>, 1, d), K \cup {"spanId"})>>,
     spans |-> <<Ref(2)>>] :
      m \in Mappings, d \in {IntVal(5), NoneVal}, K \in SUBSET ObjectKeys }
\* a legacy record, and a second record, legacy, canonical or without
\* attributes, that has a mapping of its own or shares the first one's; or
\* the first record twice
MaxShared == 2
PairHeaps(max) ==
  IF max < 2 THEN {}
  ELSE { [heap |-> <<m1, m2,
                     Restrict(FullObject(<<"search", ".tool">>, 1, IntVal(5)),
                              ObjectKeys \ {"SpanName", "SpanAttributes"}),
                     Restrict(FullObject(name, m, IntVal(5)), K)>>,
          spans |-> spans] :
            m1 \in Mappings, m2 \in Mappings, m \in 1..2, name \in ObjectNames,
            K \in {ObjectKeys \ {"SpanName", "SpanAttributes"},
                   {"SpanName", "SpanAttributes", "startTime"},
                   {"SpanName", "startTime"}},
            spans \in {<<Ref(3), Ref(4)>>, <<Ref(4), Ref(3)>>, <<Ref(3), Ref(3)>>} }

InitShared ==
  /\ EngineIdle
  /\ RegistryIdle
  /\ NativeIdle
  /\ \E input \in SingleHeaps \cup PairHeaps(MaxShared) :
       heap = input.heap /\ raw_spans = input.spans
  /\ converted_spans = <<>>
  /\ passes = 0
  /\ span_entities = <<>>
  /\ parse_raised = None
  /\ parser = None
  /\ tool_definitions_by_name = <<>>

ObjectsReturn(r) ==
  /\ heap' = r.heap
  /\ converted_spans' = r.converted
  /\ span_entities' = r.value
  /\ parse_raised' = r.raised

\* parse_raw_spans of entities/core/data_parser.py on the caller's list
ParseShared ==
  /\ parser = None
  /\ parser' = "entities"
  /\ \E skips_nan \in BOOLEAN : ObjectsReturn(ParseObjects(heap, raw_spans, skips_nan))
  /\ passes' = 1
  /\ UNCHANGED <<engine, handler, callers, _metrics, reg_log, metric_input, metric_output, scan,
                 raw_spans, tool_definitions_by_name>>

SpecShared == InitShared /\ [][ParseShared]_vars

\* ------------------------------------------------ the session metric bodies
\* ToolErrorRate and CyclesCount on the spans their compute iterates over:
\* each span by its entity_type, entity_name and contains_error.
SessionSpan(entity_type, entity_name, contains_error) ==
  [entity_type |-> entity_type, entity_name |-> entity_name, contains_error |-> contains_error]

\* for span in data: the spans of a list, or of a SessionEntity, in order
SpansOf(data) == data

\* a Python number: an integer, or a fraction in lowest terms
RECURSIVE GCD(_, _)
GCD(a, b) == IF b = 0 THEN a ELSE GCD(b, a % b)
Fraction(num, den) ==
  LET g == GCD(num, den)
  IN IF den \div g = 1 THEN Num(num \div g)
     ELSE [kind |-> "ratio", num |-> num \div g, den |-> den \div g]
Numerator(v) == IF v.kind = "ratio" THEN v.num ELSE v.n
Denominator(v) == IF v.kind = "ratio" THEN v.den ELSE 1

\* a / b and v * k
TrueDiv(a, b) ==
  IF b = 0 THEN Raised("division by zero") ELSE Returned(Fraction(a, b))
Scaled(r, k) ==
  IF r.raised # None THEN r
  ELSE Returned(Fraction(Numerator(r.result) * k, Denominator(r.result)))

\* the rate computed whatever the number of calls
tool_error_rate_unguarded(total_tool_errors, total_tool_calls) ==
  Scaled(TrueDiv(total_tool_errors, total_tool_calls), 100)

\* tool_error_rate.py lines 29-31
tool_error_rate(total_tool_errors, total_tool_calls) ==
  IF total_tool_calls # 0
  THEN Scaled(TrueDiv(total_tool_errors, total_tool_calls), 100)
  ELSE Returned(Num(0))

\* tool_error_rate.py lines 23-69
ToolErrorRate_compute(data) ==
  LET tool_spans == SelectSeq(SpansOf(data), LAMBDA span : span.entity_type = "tool")
      total_tool_calls == Len(tool_spans)
      total_tool_errors == Len(SelectSeq(tool_spans, LAMBDA span : span.contains_error))
      rate == tool_error_rate(total_tool_errors, total_tool_calls)
  IN IF rate.raised # None
     THEN MetricResult("ToolErrorRate", "session", Sentinel, FALSE, <<>>, None, rate.raised)
     ELSE MetricResult("ToolErrorRate", "session", rate.result, TRUE, <<>>, None, None)

\* cycles.py lines 46-50: the names of the agent and tool spans, in order
Events(data) ==
  LET kept == SelectSeq(SpansOf(data), LAMBDA d : d.entity_type \in {"agent", "tool"})
  IN [j \in 1..Len(kept) |-> kept[j].entity_name]

\* seq[a:b] for 0 <= a <= b <= len(seq)
Slice(seq, a, b) == SubSeq(seq, a + 1, b)

\* the cycle lengths the for loop tries at index i, from min_cycle_len on
Repeats(seq, i, min_cycle_len) ==
  {k \in min_cycle_len..((Len(seq) - i) \div 2) :
     Slice(seq, i, i + k) = Slice(seq, i + k, i + 2 * k)}

\* the for loop with cycles of one name counted too
FirstCycleOfAnyLength(seq, i) ==
  IF Repeats(seq, i, 1) = {} THEN 0
  ELSE CHOOSE k \in Repeats(seq, i, 1) : \A m \in Repeats(seq, i, 1) : k <= m

\* cycles.py lines 36-41: the first k the for loop finds a repeat for, 0
\* when it finds none
FirstCycle(seq, i) ==
  IF Repeats(seq, i, 2) = {} THEN 0
  ELSE CHOOSE k \in Repeats(seq, i, 2) : \A m \in Repeats(seq, i, 2) : k <= m

\* the inputs: sessions of tool and agent spans with and without an error,
\* and sessions of agent, tool and llm spans of two names
MaxToolSpans == 5
MaxEvents == 6
RateSpans == {SessionSpan(type, "A", err) : type \in {"tool", "agent"}, err \in BOOLEAN}
EventSpans == {SessionSpan("agent", "A", FALSE), SessionSpan("tool", "B", FALSE),
               SessionSpan("agent", "B", FALSE), SessionSpan("llm", "A", FALSE)}
SessionInputs(max_rate, max_events) ==
  {[metric |-> "ToolErrorRate", data |-> d] :
     d \in UNION {[1..n -> RateSpans] : n \in 0..max_rate}} \cup
  {[metric |-> "CyclesCount", data |-> d] :
     d \in UNION {[1..n -> EventSpans] : n \in 0..max_events}}

InitSession ==
  /\ EngineIdle
  /\ RegistryIdle
  /\ ParserIdle
  /\ metric_input \in SessionInputs(MaxToolSpans, MaxEvents)
  /\ metric_output = NoResult
  /\ scan = ScanIdle

\* ToolErrorRate.compute on the session
ComputeRate ==
  /\ metric_input.metric = "ToolErrorRate"
  /\ metric_output = NoResult
  /\ metric_output' = ToolErrorRate_compute(metric_input.data)
  /\ UNCHANGED <<engine, handler, callers, _metrics, reg_log, metric_input, scan, parsing>>

\* cycles.py lines 31-34 and 46-51: the events are taken and the counter starts
CyclesStart ==
  /\ metric_input.metric = "CyclesCount"
  /\ scan.pc = "idle"
  /\ scan' = [pc |-> "while", i |-> 0, cycle_count |-> 0]
  /\ UNCHANGED <<engine, handler, callers, _metrics, reg_log, metric_input, metric_output,
                 parsing>>

\* cycles.py lines 34-43: one iteration of the while loop
CyclesStep ==
  /\ scan.pc = "while"
  /\ scan.i < Len(Events(metric_input.data))
  /\ LET k == FirstCycle(Events(metric_input.data), scan.i)
     IN scan' = IF k # 0
                THEN [scan EXCEPT !.i = @ + k, !.cycle_count = @ + 1]
                ELSE [scan EXCEPT !.i = @ + 1]
  /\ UNCHANGED <<engine, handler, callers, _metrics, reg_log, metric_input, metric_output,
                 parsing>>

\* cycles.py lines 44 and 53-68: the loop is left and the result returned
CyclesReturn ==
  /\ scan.pc = "while"
  /\ scan.i >= Len(Events(metric_input.data))
  /\ scan' = [scan EXCEPT !.pc = "done"]
  /\ metric_output' = MetricResult("CyclesCount", "session", Num(scan.cycle_count), TRUE,
                                   <<>>, None, None)
  /\ UNCHANGED <<engine, handler, callers, _metrics, reg_log, metric_input, parsing>>

NextSession == ComputeRate \/ CyclesStart \/ CyclesStep \/ CyclesReturn

SpecSession == InitSession /\ [][NextSession]_vars

\* the event loop runs a coroutine that can take a step
SpecSessionFair == SpecSession /\ WF_vars(NextSession)

\* ================================================================ claims
Terminated == pc \in {"returned", "raised"}

\* the places of the returned mapping: <<key, index>>
Places == {<<k, n>> : k \in BucketKeys, n \in 1..MaxMetrics * (MaxSchedSpans + 2)}
Filled == {pl \in Places : pl[2] <= Len(metric_results[pl[1]])}
At(pl) == metric_results[pl[1]][pl[2]]

\* a result, leaving aside the app_name the assembly may fill in
Core(r) == [r EXCEPT !.app_name = None]
PlacesOf(r) == {pl \in Filled : Core(At(pl)) = Core(r)}

SameUnit(t, u) ==
  t.unit = u.unit /\ t.session_id = u.session_id /\ t.span_id = u.span_id

\* C1: when three metrics A, B, C run on the same unit, B's compute raises
\* and A's and C's succeed, compute_metrics returns exactly two results with
\* success=true, A's and C's own, and exactly one with success=false, whose
\* error_message is non-empty.
C1_RaisingMetricIsReported ==
  \A a, b, c \in 1..Len(tasks) :
    ( /\ Terminated
      /\ Len(tasks) = 3 /\ a # b /\ b # c /\ a # c
      /\ SameUnit(tasks[a], tasks[b]) /\ SameUnit(tasks[b], tasks[c])
      /\ results[a] = ComputeResult(tasks[a], "ok")
      /\ results[c] = ComputeResult(tasks[c], "ok")
      /\ results[b] = SafeComputeResult(tasks[b], "raise") )
    => /\ pc = "returned"
       /\ Cardinality({pl \in Filled : At(pl).success}) = 2
       /\ PlacesOf(results[a]) # {} /\ PlacesOf(results[c]) # {}
       /\ Cardinality({pl \in Filled : ~At(pl).success}) = 1
       /\ \A pl \in Filled : ~At(pl).success => At(pl).error_message # ""

\* C2: a task result is left out of the buckets if and only if it has
\* success=true and the sentinel value -1; every result with success=false
\* is kept.
C2_OnlyOptOutsAreDropped ==
  pc = "returned" =>
    \A i \in 1..Len(tasks) :
      (PlacesOf(results[i]) = {}) <=> (results[i].success /\ results[i].value = Sentinel)

\* C3: whatever the metrics raise or return, compute_metrics does not raise:
\* every invocation that ends, ends by returning the mapping.
C3_NeverRaises == Terminated => pc = "returned" /\ raised = None

\* C4: the returned mapping has exactly the three keys, and every result
\* that is kept sits in exactly one bucket, the one its aggregation_level
\* names.
Kept == {i \in 1..Len(tasks) : ~Discarded(results[i])}

C4_BucketsPartitionByLevel ==
  pc = "returned" =>
    /\ DOMAIN metric_results = {"span_metrics", "session_metrics", "population_metrics"}
    /\ \A pl \in Filled : pl[1] = At(pl).aggregation_level \o "_metrics"
    /\ \A i \in Kept :
         /\ PlacesOf(results[i]) # {}
         /\ \A pl \in PlacesOf(results[i]) :
              pl[1] = results[i].aggregation_level \o "_metrics"
    /\ Cardinality(Filled) = Cardinality(Kept)

C4_Witness ==
  /\ pc = "returned"
  /\ metric_results["span_metrics"] # <<>>
  /\ metric_results["session_metrics"] # <<>>
  /\ metric_results["population_metrics"] # <<>>

\* C5: with a positive bound N configured, at most N tasks are inside
\* _safe_compute (reading the cache or computing) at any moment.
Inside == {i \in 1..Len(tasks) : tpc[i] \in {"cache", "compute"}}

C5_AtMostNInside ==
  (max_concurrent_tasks # NoInt /\ max_concurrent_tasks[1] > 0) =>
     Cardinality(Inside) <= max_concurrent_tasks[1]

C5_Witness ==
  /\ max_concurrent_tasks = Some(2)
  /\ Cardinality(Inside) = 2
  /\ \E i \in 1..Len(tasks) : tpc[i] = "wait"
  /\ \E i \in Inside : tpc[i] = "compute"

\* C7: a span or session task whose cache read returned a result never calls
\* compute and ends with that result, marked as coming from the cache;
\* compute is called only after a miss; a population task never reads the
\* cache.
Has(log, e) == \E n \in 1..Len(log) : log[n] = e

C7_CacheHitSkipsCompute ==
  \A i \in 1..Len(tasks) :
    /\ Has(calls[i], "hit") =>
         /\ ~Has(calls[i], "compute")
         /\ tpc[i] = "done"
         /\ results[i] = CachedResult(tasks[i])
         /\ results[i].from_cache
    /\ Has(calls[i], "compute") =>
         IF tasks[i].aggregation_level = "population"
         THEN calls[i] = <<"compute">>
         ELSE calls[i] = <<"cache", "miss", "compute">>
    /\ tasks[i].aggregation_level = "population" => ~Has(calls[i], "cache")
    /\ tpc[i] = "done" /\ ~Has(calls[i], "hit") => ~results[i].from_cache

C7_Witness ==
  \E i, j \in 1..Len(tasks) :
    /\ tasks[i].aggregation_level = "span" /\ Has(calls[i], "hit") /\ tpc[i] = "done"
    /\ tasks[j].aggregation_level = "session" /\ Has(calls[j], "compute")
    /\ tpc[j] = "done"

\* ------------------------------------------------- the scheduling loops
\* a point of the three loops: metric registry[k] in the span loop of span
\* xi of session si, in the session loop of session si, or in the
\* population loop
Point(k, loop, si, xi) == [k |-> k, loop |-> loop, si |-> si, xi |-> xi]
Class(pt) == get_metric(registry[pt.k])

Points ==
  {Point(k, "span", si, xi) :
     k \in 1..Len(registry),
     si \in 1..Len(sessions_set),
     xi \in 1..MaxSchedSpans} \cup
  {Point(k, "session", si, 0) : k \in 1..Len(registry), si \in 1..Len(sessions_set)} \cup
  {Point(k, "population", 0, 0) : k \in 1..Len(registry)}
SpanPoints ==
  {pt \in Points : /\ pt.loop = "span"
                   /\ pt.xi <= Len(sessions_set[pt.si].spans)
                   /\ Class(pt).aggregation_level = "span"}
SessionPoints ==
  {pt \in Points : pt.loop = "session" /\ Class(pt).aggregation_level = "session"}
PopulationPoints ==
  {pt \in Points : pt.loop = "population" /\ Class(pt).aggregation_level = "population"}

\* program order: sessions in order, in a session its spans in order and
\* then its session loop, the population loop last, metrics in registry
\* order
Major(pt) == IF pt.loop = "population" THEN Len(sessions_set) + 1 ELSE pt.si
Minor(pt) == IF pt.loop = "span" THEN pt.xi ELSE MaxSchedSpans + 1
Earlier(a, b) ==
  \/ Major(a) < Major(b)
  \/ Major(a) = Major(b) /\ Minor(a) < Minor(b)
  \/ Major(a) = Major(b) /\ Minor(a) = Minor(b) /\ a.k < b.k

\* the span's entity type is one the metric lists, or the metric lists none
Allowed(pt) ==
  \/ ~Class(pt).required.has_entity_type
  \/ sessions_set[pt.si].spans[pt.xi].entity_type \in Class(pt).required.entity_type

\* a required parameter passes: conversation_data is there with elements,
\* the transition counts are there with an entry
Passes(param, s) ==
  CASE param = "conversation_data" ->
         s.conversation_data.type = "dict" /\ s.conversation_data.elements > 0
    [] param = "agent_transition_counts" ->
         s.agent_transition_counts.type = "counter" /\ s.agent_transition_counts.len > 0
    [] OTHER -> FALSE
RequirementsHold(pt) ==
  \A n \in 1..Len(Class(pt).REQUIRED_PARAMETERS.params) :
     Passes(Class(pt).REQUIRED_PARAMETERS.params[n], sessions_set[pt.si])

\* the loop body at pt gets as far as initializing the metric
ReachesInit(pt) ==
  CASE pt.loop = "span" ->
         /\ pt.xi <= Len(sessions_set[pt.si].spans)
         /\ Class(pt).aggregation_level = "span"
         /\ Allowed(pt)
    [] pt.loop = "session" -> RequirementsHold(pt)
    [] pt.loop = "population" -> TRUE

\* a model for the metric's provider can be had at pt: the handler creates
\* one, the metric's create_model returns one, or an earlier metric's
\* create_model returned one, which set_model stored
ModelAt(pt) ==
  \/ Class(pt).provider \in creatable
  \/ Class(pt).create_model_ok
  \/ \E q \in Points :
       /\ Earlier(q, pt) /\ ReachesInit(q)
       /\ Class(q).provider = Class(pt).provider /\ Class(q).create_model_ok

\* _initialize_metric returns an instance at pt
Initializes(pt) ==
  \/ ~Class(pt).needs_model
  \/ Class(pt).provider # None /\ ModelAt(pt)

TasksAt(pt) ==
  {i \in 1..Len(tasks) :
     /\ tasks[i].metric = registry[pt.k]
     /\ tasks[i].unit = pt.loop
     /\ tasks[i].session_id =
          IF pt.loop = "population" THEN None ELSE sessions_set[pt.si].session_id
     /\ tasks[i].span_id =
          IF pt.loop = "span" THEN sessions_set[pt.si].spans[pt.xi].span_id ELSE None}
TasksOfLoop(loop) == {i \in 1..Len(tasks) : tasks[i].unit = loop}

\* C8: a span-level metric M is scheduled on a span x if and only if x's
\* entity type is in M's allow-list or M has no allow-list, with exactly one
\* task per such (M, x) over all spans of all sessions.
C8_SpanScheduledIffAllowed ==
  pc = "gather" =>
    \A pt \in SpanPoints :
       Cardinality(TasksAt(pt)) = IF Allowed(pt) THEN 1 ELSE 0

\* C8, with the initialization: M is scheduled on x if and only if x's
\* entity type is allowed and _initialize_metric returns an instance of M at
\* that point of the loops; there is exactly one task per such (M, x), and
\* the span loop makes no other task.
C8_SpanScheduledIffAllowedAndInitialized ==
  pc = "gather" =>
    /\ \A pt \in SpanPoints :
         Cardinality(TasksAt(pt)) = IF Allowed(pt) /\ Initializes(pt) THEN 1 ELSE 0
    /\ Cardinality(TasksOfLoop("span")) =
         Cardinality({pt \in SpanPoints : Allowed(pt) /\ Initializes(pt)})

C8_Witness ==
  /\ pc = "gather"
  /\ Len(sessions_set) = 2
  /\ \E a, b, c \in SpanPoints :
       /\ a.k = b.k /\ b.k = c.k /\ a.si = b.si /\ c.si # a.si
       /\ Class(a).required.has_entity_type
       /\ Allowed(a) /\ Cardinality(TasksAt(a)) = 1
       /\ ~Allowed(b) /\ TasksAt(b) = {}
       /\ Allowed(c) /\ Cardinality(TasksAt(c)) = 1

\* C9: a session-level metric is scheduled exactly once for a session if and
\* only if every one of its required parameters passes its validity
\* predicate on that session; when one fails there is no task for that
\* (metric, session).
C9_SessionScheduledIffRequirements ==
  pc = "gather" =>
    \A pt \in SessionPoints :
       Cardinality(TasksAt(pt)) = IF RequirementsHold(pt) THEN 1 ELSE 0

\* C9, with the initialization: a session-level metric is scheduled exactly
\* once for a session if and only if every required parameter passes and
\* _initialize_metric returns an instance at that point; otherwise there is
\* no task for that (metric, session), and the session loop makes no other
\* task.
C9_SessionScheduledIffRequirementsAndInitialized ==
  pc = "gather" =>
    /\ \A pt \in SessionPoints :
         Cardinality(TasksAt(pt)) =
           IF RequirementsHold(pt) /\ Initializes(pt) THEN 1 ELSE 0
    /\ Cardinality(TasksOfLoop("session")) =
         Cardinality({pt \in SessionPoints : RequirementsHold(pt) /\ Initializes(pt)})
    /\ \A i \in TasksOfLoop("session") : tasks[i].context

C9_Witness ==
  /\ pc = "gather"
  /\ \E a, b \in SessionPoints :
       /\ a.k = b.k /\ a.si # b.si
       /\ Len(Class(a).REQUIRED_PARAMETERS.params) = 2
       /\ RequirementsHold(a) /\ Cardinality(TasksAt(a)) = 1
       /\ Passes("conversation_data", sessions_set[b.si])
       /\ ~Passes("agent_transition_counts", sessions_set[b.si])
       /\ TasksAt(b) = {}

\* C10: each registered population-level metric is scheduled exactly once
\* per invocation, on the whole SessionSet, whatever the number of sessions
\* and spans.
C10_PopulationScheduledOnce ==
  pc = "gather" =>
    \A pt \in PopulationPoints : Cardinality(TasksAt(pt)) = 1

\* C10, with the initialization: a registered population-level metric is
\* scheduled exactly once, on the whole SessionSet, when _initialize_metric
\* returns an instance of it, and not at all otherwise; the population loop
\* makes no other task.
C10_PopulationScheduledOnceWhenInitialized ==
  pc = "gather" =>
    /\ \A pt \in PopulationPoints :
         Cardinality(TasksAt(pt)) = IF Initializes(pt) THEN 1 ELSE 0
    /\ Cardinality(TasksOfLoop("population")) =
         Cardinality({pt \in PopulationPoints : Initializes(pt)})
    /\ \A i \in TasksOfLoop("population") :
         tasks[i].session_id = None /\ tasks[i].span_id = None /\ ~tasks[i].context

C10_Witness ==
  /\ pc = "gather"
  /\ Len(sessions_set) = 2
  /\ \A si \in 1..2 : Len(sessions_set[si].spans) = 2
  /\ \E pt \in PopulationPoints : Cardinality(TasksAt(pt)) = 1

\* C6: however N first-use model resolutions for one provider interleave,
\* at most one model instance is ever constructed for that provider, the
\* engine's fallback (create_model, then set_model) included; every caller
\* that returns with a model holds that one instance.
C6_OneModelPerKey ==
  /\ \A p \in Providers : handler.built[p] <= 1
  /\ \A c \in 1..Len(callers) :
       callers[c].pc = "returned" /\ callers[c].model # 0 => callers[c].model = 1

\* ------------------------------------------------------------ the registry
\* the dict a logged call left behind
After(n) == IF n < Len(reg_log) THEN reg_log[n + 1].before ELSE _metrics
Lookups(m) == [name \in {"A", "B", "X"} |-> MetricRegistry_get_metric(m, name)]

\* C11: a register_metric call for a name the registry already holds raises,
\* and the registry is as it was: the earlier class is still the one stored.
C11_DuplicateNameRejected ==
  \A n \in 1..Len(reg_log) :
    (reg_log[n].d.base /\ reg_log[n].d.name \in Keys(reg_log[n].before)) =>
      /\ reg_log[n].raised # None
      /\ After(n) = reg_log[n].before

\* C12: a register_metric call for a class that does not inherit from
\* BaseMetric raises and leaves list_metrics and get_metric as they were;
\* after any sequence of calls, list_metrics holds exactly the names whose
\* registration did not raise.
C12_NonConformingRejected ==
  /\ \A n \in 1..Len(reg_log) :
       ~reg_log[n].d.base =>
         /\ reg_log[n].raised # None
         /\ MetricRegistry_list_metrics(After(n)) =
              MetricRegistry_list_metrics(reg_log[n].before)
         /\ Lookups(After(n)) = Lookups(reg_log[n].before)
  /\ {MetricRegistry_list_metrics(_metrics)[i] : i \in 1..Len(_metrics)} =
       {reg_log[n].d.name : n \in {k \in 1..Len(reg_log) : reg_log[k].raised = None}}
  /\ \A i, j \in 1..Len(_metrics) : i # j => _metrics[i].name # _metrics[j].name

C12_Witness ==
  /\ Len(reg_log) = 3
  /\ reg_log[1].raised = None
  /\ ~reg_log[2].d.base /\ reg_log[2].raised = "ValueError"
  /\ reg_log[2].d.name = reg_log[1].d.name
  /\ reg_log[3].raised = None
  /\ Len(_metrics) = 2

\* C13: every MetricResult with success=false, from the exception wrapper
\* of _safe_compute or from a native metric body, has a non-empty
\* error_message and the value -1.
C13_FailureCarriesMessageAndSentinel ==
  (metric_output # NoResult /\ ~metric_output.success) =>
    /\ metric_output.error_message \notin {"", None}
    /\ metric_output.value = Sentinel

\* C14: assembly fills a span or session result's app_name from the
\* session-to-app-name table only when the result has none; a result that
\* has an app_name keeps it, and a population result's app_name is never
\* changed.
Assembled(i) == {At(pl).app_name : pl \in PlacesOf(results[i])}

C14_AppNameFilledOnlyWhenUnset ==
  pc = "returned" =>
    \A i \in Kept :
      Assembled(i) =
        {IF results[i].aggregation_level \in {"span", "session"}
            /\ results[i].app_name = None
         THEN DictGet(sessions_appname_dict(sessions_set), results[i].session_id[1], None)
         ELSE results[i].app_name}

\* C15: when model resolution fails for the provider of a registered metric
\* M (no model can be had, or creating one raises), every other registered
\* metric that needs no model, or whose own provider's model the handler
\* creates, still has one task on each unit it applies to, and what those
\* tasks return is in the mapping the invocation returns.
ResolutionFails(k) ==
  LET M == get_metric(registry[k])
  IN /\ M.provider # None
     /\ \/ M.provider \in failing
        \/ M.provider \notin creatable /\ ~M.create_model_ok
           /\ handler.store[M.provider] = 0
Unaffected(k) ==
  LET O == get_metric(registry[k])
  IN \/ O.provider = None
     \/ O.provider \in creatable \ failing
AppliesAt(pt) ==
  \/ pt \in SpanPoints /\ Allowed(pt)
  \/ pt \in SessionPoints /\ RequirementsHold(pt)
  \/ pt \in PopulationPoints

C15_ResolutionFailureIsLocal ==
  (pc # "start" /\ \E k \in 1..Len(registry) : ResolutionFails(k)) =>
    \A pt \in Points :
      (Unaffected(pt.k) /\ AppliesAt(pt)) =>
        /\ Cardinality(TasksAt(pt)) = 1
        /\ pc = "returned" =>
             \A i \in TasksAt(pt) : ~Discarded(results[i]) => PlacesOf(results[i]) # {}

\* C16: normalization returns every record detected as canonical unchanged,
\* and normalizing what normalization returned changes nothing.
C16_NormalizeIdempotent ==
  (passes >= 1 /\ parse_raised = None) =>
    \A i \in 1..Len(raw_spans) :
      /\ detect_span_format(raw_spans[i]) = "standard" => converted_spans[i] = raw_spans[i]
      /\ passes >= 2 => converted_spans[i] = raw_spans[i]

\* a legacy record with a duration and an ISO start time, whose session id
\* was injected, has been normalized twice
C16_Witness ==
  /\ passes = 2
  /\ parse_raised = None
  /\ detect_span_format(converted_spans[1]) = "jaeger"
  /\ "Duration" \in DOMAIN converted_spans[1]
  /\ "execution.id" \notin DOMAIN converted_spans[1]["tags"]
  /\ "session.id" \notin DOMAIN converted_spans[1]["tags"]
  /\ "startTime" \in DOMAIN converted_spans[1]
  /\ "traceId" \in DOMAIN converted_spans[1]
  /\ converted_spans[1]["SpanAttributes"]["session.id"] = "t0"
  /\ converted_spans[1]["SpanAttributes"]["ioa_start_time"] = StrVal("1704067200.0")

\* the operation name and the span id of a raw record, in either shape
OperationName(span) ==
  IF "SpanName" \in DOMAIN span THEN span["SpanName"]
  ELSE IF "operationName" \in DOMAIN span THEN span["operationName"] ELSE <<>>
RecordId(span) ==
  IF "SpanId" \in DOMAIN span THEN span["SpanId"]
  ELSE IF "spanId" \in DOMAIN span THEN span["spanId"] ELSE ""
\* the positions of the SpanEntity objects made from a raw record
EntitiesOf(span) == {e \in 1..Len(span_entities) : span_entities[e].span_id = RecordId(span)}
ParseReturned == parser # None /\ parse_raised = None

\* C17: a record whose lower-cased operation name ends in one of the six
\* suffixes yields exactly one SpanEntity of the suffix's entity type, and a
\* record that matches no suffix and no framework rule yields none.
C17_SuffixDecidesEntityType ==
  ParseReturned =>
    \A i \in 1..Len(raw_spans) :
      LET name == OperationName(raw_spans[i])
          made == EntitiesOf(raw_spans[i])
      IN IF SuffixType(name) # None
         THEN /\ Cardinality(made) = 1
              /\ \A e \in made : span_entities[e].entity_type = SuffixType(name)
         ELSE entity_type_of(name) = None => made = {}

\* the indexed triples an llm record carries, in index order, and those of
\* the batch, in batch order
RecordAttrs(span) ==
  IF "SpanAttributes" \in DOMAIN span THEN span["SpanAttributes"]
  ELSE IF "tags" \in DOMAIN span THEN span["tags"] ELSE <<>>
TriplesOf(span) ==
  LET attrs == RecordAttrs(span)
      k == Cardinality({i \in 0..MaxFunctions : FunctionKey(i, "name") \in DOMAIN attrs})
  IN IF SuffixType(OperationName(span)) # "llm" THEN <<>>
     ELSE [i \in 1..k |->
             [name |-> attrs[FunctionKey(i - 1, "name")],
              description |-> attrs[FunctionKey(i - 1, "description")],
              parameters |-> attrs[FunctionKey(i - 1, "parameters")]]]
RECURSIVE BatchTriples(_, _)
BatchTriples(batch, i) ==
  IF i > Len(batch) THEN <<>> ELSE TriplesOf(batch[i]) \o BatchTriples(batch, i + 1)
Triples == BatchTriples(raw_spans, 1)
FirstNamed(name) == Triples[CHOOSE t \in 1..Len(Triples) :
                              /\ Triples[t].name = name
                              /\ \A u \in 1..t - 1 : Triples[u].name # name]

\* C18: the definition table holds one entry per tool name (not empty) among
\* the indexed triples of the batch's llm records, so k entries for k triples
\* with k different names, and the entry of a name is the definition of the
\* first triple that carries it.
C18_FirstDefinitionKept ==
  ParseReturned =>
    /\ DOMAIN tool_definitions_by_name =
         {Triples[t].name : t \in 1..Len(Triples)} \ {""}
    /\ (\A t, u \in 1..Len(Triples) :
          Triples[t].name # "" /\ (t # u => Triples[t].name # Triples[u].name))
         => Cardinality(DOMAIN tool_definitions_by_name) = Len(Triples)
    /\ \A name \in DOMAIN tool_definitions_by_name :
         tool_definitions_by_name[name] =
           ToolDefinition(FirstNamed(name).description,
                          safe_parse_json(FirstNamed(name).parameters))

\* two llm records define the same tool differently, a third tool is defined
\* once, and the table has both
C18_Witness ==
  /\ ParseReturned
  /\ Len(Triples) = 3
  /\ Cardinality(DOMAIN tool_definitions_by_name) = 2
  /\ \E t, u \in 1..Len(Triples) :
       /\ t < u
       /\ Triples[t].name = Triples[u].name
       /\ Triples[t].description # Triples[u].description
       /\ TriplesOf(raw_spans[1]) = <<Triples[t]>>

\* the batch with its records in another order, parsed by the parser that ran
Reordered(order) == [i \in 1..Len(raw_spans) |-> raw_spans[order[i]]]
ParseBy(which, batch) ==
  IF which = "core" THEN core_parse_raw_spans(batch) ELSE parse_raw_spans(batch)
ToolEntities(entities) == {e \in 1..Len(entities) : entities[e].entity_type = "tool"}

\* C19: a tool span's tool_definition is the entry of the batch-wide table
\* for its entity_name (none when the table has no such entry), and parsing
\* the batch in any other order gives every tool span the same definition.
C19_ToolDefinitionFromBatchTable ==
  ParseReturned =>
    /\ \A e \in ToolEntities(span_entities) :
         span_entities[e].tool_definition =
           Get(tool_definitions_by_name, span_entities[e].entity_name, NoneVal)
    /\ \A order \in Permutations(1..Len(raw_spans)) :
         LET other == ParseBy(parser, Reordered(order)).value
         IN \A e \in ToolEntities(span_entities) : \A o \in ToolEntities(other) :
              other[o].span_id = span_entities[e].span_id =>
                other[o].tool_definition = span_entities[e].tool_definition

\* the raw record a SpanEntity was made from, and the raw attribute value its
\* payload was read from (<<>> when the record has no such attribute)
RecordOf(entity) ==
  raw_spans[CHOOSE i \in 1..Len(raw_spans) : RecordId(raw_spans[i]) = entity.span_id]
RawPayload(entity, key) ==
  LET attrs == RecordAttrs(RecordOf(entity))
  IN IF key \in DOMAIN attrs THEN <<attrs[key]>> ELSE <<>>
\* what {value: ...} may hold for a raw value: the value itself, or what it
\* parses to as JSON
Originals(raw) ==
  IF raw = <<>> THEN {}
  ELSE {raw[1]} \cup (IF IsStr(raw[1]) /\ json_loads(raw[1][2]) # <<>>
                      THEN {json_loads(raw[1][2])[1]} ELSE {})
PayloadNormalized(payload, raw) ==
  /\ IsNone(payload) \/ IsMapping(payload)
  /\ payload[1] = "wrapped" =>
       /\ ~IsMapping(payload[2])
       /\ ~IsNone(payload[2])
       /\ payload[2] \in Originals(raw)
  /\ payload[1] = "dict" => payload \in Originals(raw)

\* C20: every SpanEntity of the entities parser has an input_payload and an
\* output_payload that are None or a mapping; a raw value that is, or parses
\* to, something else than a mapping comes out as {value: that}, and a
\* mapping comes out as it is.
C20_PayloadsAreMappingOrNone ==
  (ParseReturned /\ parser = "entities") =>
    \A e \in 1..Len(span_entities) :
      LET entity == span_entities[e]
          cfg == PAYLOAD_CONFIG(entity.entity_type)
      IN IF entity.entity_type = "llm"
         THEN entity.input_payload[1] = "dict" /\ entity.output_payload[1] = "dict"
         ELSE /\ PayloadNormalized(entity.input_payload, RawPayload(entity, cfg.input_key))
              /\ PayloadNormalized(entity.output_payload, RawPayload(entity, cfg.output_key))

\* a tool record whose input is a JSON array and whose output is no JSON
C20_Witness ==
  /\ ParseReturned
  /\ parser = "entities"
  /\ \E e \in 1..Len(span_entities) :
       /\ span_entities[e].entity_type = "tool"
       /\ span_entities[e].input_payload = Wrapped(ListVal(<<IntVal(1), IntVal(2)>>))
       /\ span_entities[e].output_payload = Wrapped(StrVal("plain text"))

\* a record that both parsers' suffix rules name a tool and whose attributes
\* hold none of the input and output keys
PayloadKeys == InputKeys \cup OutputKeys
ToolWithoutPayloadKeys(span) ==
  /\ SuffixType(OperationName(span)) = "tool"
  /\ entity_type_of(OperationName(span)) = "tool"
  /\ DOMAIN RecordAttrs(span) \cap PayloadKeys = {}

\* C21: a tool record with none of the input and output attribute keys yields
\* exactly one SpanEntity, whose input_payload and output_payload are None,
\* and the parse of its batch does not raise.
C21_ToolWithoutPayloadKeysYieldsNone ==
  parser # None =>
    \A i \in 1..Len(raw_spans) :
      ToolWithoutPayloadKeys(raw_spans[i]) =>
        /\ parse_raised = None
        /\ Cardinality(EntitiesOf(raw_spans[i])) = 1
        /\ \A e \in EntitiesOf(raw_spans[i]) :
             /\ IsNone(span_entities[e].input_payload)
             /\ IsNone(span_entities[e].output_payload)

\* a raw record with neither pair of marker fields
UnknownShape(span) == detect_span_format(span) = "unknown"

\* C22: a record of unknown shape is normalized to itself, the parse of a
\* batch that holds such records (or nothing else) does not raise, and no
\* SpanEntity is made from the record.
C22_UnknownShapePassesThrough ==
  (parser = "entities" /\ \E i \in 1..Len(raw_spans) : UnknownShape(raw_spans[i])) =>
    /\ parse_raised = None
    /\ \A i \in 1..Len(raw_spans) :
         UnknownShape(raw_spans[i]) =>
           /\ converted_spans[i] = raw_spans[i]
           /\ EntitiesOf(raw_spans[i]) = {}

\* the tool spans of the session and those with an error
ToolSpansOf(data) == {j \in 1..Len(data) : data[j].entity_type = "tool"}
ToolErrorsOf(data) == {j \in ToolSpansOf(data) : data[j].contains_error}
RateComputed == metric_input.metric = "ToolErrorRate" /\ metric_output # NoResult

\* C23: ToolErrorRate on a session with t tool spans, e of them with an
\* error, returns success=true with the value 0 when t = 0 and 100*e/t when
\* t > 0, a value between 0 and 100.
C23_ToolErrorRateIsPercentage ==
  RateComputed =>
    LET t == Cardinality(ToolSpansOf(metric_input.data))
        e == Cardinality(ToolErrorsOf(metric_input.data))
        value == metric_output.value
    IN /\ metric_output.success
       /\ t = 0 => value = Num(0)
       /\ t > 0 => Numerator(value) * t = 100 * e * Denominator(value)
       /\ 0 <= Numerator(value)
       /\ Numerator(value) <= 100 * Denominator(value)

\* a session without tool spans has a rate, and one with three tool spans,
\* one of them with an error, has the rate 100/3
C23_Witness ==
  /\ RateComputed
  /\ Cardinality(ToolSpansOf(metric_input.data)) = 3
  /\ Cardinality(ToolErrorsOf(metric_input.data)) = 1
  /\ metric_output.value = [kind |-> "ratio", num |-> 100, den |-> 3]

\* the names the counter scans, and the count it returned
ScannedEvents == Events(metric_input.data)
CyclesReturned == metric_input.metric = "CyclesCount" /\ scan.pc = "done"

\* C28: CyclesCount's counter terminates on every sequence of agent and tool
\* names, its index growing in every iteration of the loop, and returns
\* success=true with a count c, 0 <= c <= n/2 for n names, that is 0 for
\* fewer than 4 names and 1 for A, B, A, B.
C28_CyclesCountTerminates ==
  /\ [](CyclesReturned =>
          LET n == Len(ScannedEvents)
              c == metric_output.value.n
          IN /\ metric_output.success
             /\ metric_output.value = Num(scan.cycle_count)
             /\ 0 <= c
             /\ 2 * c <= n
             /\ n < 4 => c = 0
             /\ ScannedEvents = <<"A", "B", "A", "B">> => c = 1)
  /\ [][(scan.pc = "while" /\ scan'.pc = "while") => scan'.i > scan.i]_vars
  /\ (scan.pc = "while") ~> (scan.pc = "done")

\* the counter found two cycles in A, B, A, B, A, B, between them an llm span
C28_Witness ==
  /\ CyclesReturned
  /\ Len(metric_input.data) = 6
  /\ ScannedEvents = <<"A", "B", "A", "B", "A">>
  /\ metric_output.value = Num(1)
  /\ scan.i = 5

\* the records of known shape that the rules classify, and the session a
\* record names
ClassifiedRecord(span) ==
  /\ detect_span_format(span) # "unknown"
  /\ entity_type_of(OperationName(span)) # None
SessionOfRecord(span) == SessionIdOf(RecordAttrs(span))
\* the span ids of the records classified for session s, and of the spans
\* emitted for it, each in its order
IdsOf(seq, id(_)) == [j \in 1..Len(seq) |-> id(seq[j])]
ClassifiedFor(s) ==
  IdsOf(SelectSeq(raw_spans, LAMBDA span : ClassifiedRecord(span) /\ SessionOfRecord(span) = s),
        RecordId)
EmittedId(entity) == entity.span_id
EmittedFor(s) ==
  IdsOf(SelectSeq(span_entities, LAMBDA entity : entity.session_id = s), EmittedId)

\* C24: for every session id, the spans emitted for it are the classified
\* input records of that session, each once and in input order.
C24_SessionSpansInInputOrder ==
  ParseReturned => \A s \in {"s1", "s2"} : EmittedFor(s) = ClassifiedFor(s)

\* the explicit error attribute of the record an entity was made from
ExplicitError(entity) ==
  LET attrs == RecordAttrs(RecordOf(entity))
  IN ErrorKey \in DOMAIN attrs /\ Truthy(attrs[ErrorKey])
\* some string leaf of the emitted output payload holds a marker
MarkedOutput(entity) ==
  ~IsNone(entity.output_payload) /\ contains_error_like_pattern(entity.output_payload)

\* C25: a span's contains_error is true exactly when its error attribute is
\* truthy or a string leaf at any depth of its emitted output payload, the
\* {value: ...} wrapping of a list or scalar included, holds one of the
\* markers in any letter case.
C25_ContainsErrorIffMarked ==
  (ParseReturned /\ parser = "entities") =>
    \A e \in 1..Len(span_entities) :
      span_entities[e].contains_error <=>
        (ExplicitError(span_entities[e]) \/ MarkedOutput(span_entities[e]))

\* the session and execution identifiers a legacy record's tags name
NamedIn(tags) == DOMAIN tags \cap {"session.id", "execution.id"}

\* C26: the conversion of a legacy record sets the attribute session.id to
\* the record's trace id exactly when its tags hold neither session.id nor
\* execution.id; it leaves an identifier the tags hold as it is, and the
\* SpanEntity's session_id is then that identifier.
C26_SessionIdInjectedOnlyWhenAbsent ==
  (ParseReturned /\ parser = "entities") =>
    \A i \in 1..Len(raw_spans) :
      detect_span_format(raw_spans[i]) = "jaeger" =>
        LET span == raw_spans[i]
            tags == span["tags"]
            attrs == converted_spans[i]["SpanAttributes"]
        IN /\ "traceId" \in DOMAIN span =>
                (NamedIn(tags) = {} <=>
                   /\ "session.id" \notin DOMAIN tags
                   /\ "session.id" \in DOMAIN attrs
                   /\ attrs["session.id"] = span["traceId"])
           /\ \A k \in NamedIn(tags) : attrs[k] = tags[k]
           /\ DOMAIN attrs \cap {"session.id", "execution.id"} # NamedIn(tags) =>
                NamedIn(tags) = {} /\ "traceId" \in DOMAIN span
           /\ NamedIn(tags) # {} =>
                \A e \in EntitiesOf(span) :
                  span_entities[e].session_id =
                    (IF "session.id" \in DOMAIN tags THEN tags["session.id"]
                     ELSE tags["execution.id"])

\* a legacy record without identifiers got its trace id as session, and one
\* that names an execution kept it, in one batch
C26_Witness ==
  /\ ParseReturned
  /\ parser = "entities"
  /\ Len(raw_spans) = 2
  /\ detect_span_format(raw_spans[1]) = "jaeger"
  /\ detect_span_format(raw_spans[2]) = "jaeger"
  /\ raw_spans[1]["tags"] = <<>>
  /\ Len(span_entities) = 2
  /\ span_entities[1].session_id = "t0"
  /\ DOMAIN raw_spans[2]["tags"] = {"execution.id"}
  /\ "traceId" \in DOMAIN raw_spans[2]
  /\ span_entities[2].session_id = "s2"

\* the permits of the semaphore as it was made
Permits == MakeSemaphore(max_concurrent_tasks)
Gathered == \A i \in 1..Len(tasks) : tpc[i] = "done" /\ results[i] # NoResult

\* C27: under fair scheduling, with every compute call returning or raising,
\* every scheduled task completes and gives its permit back, and
\* compute_metrics returns with one result per task and no permit held.
C27_EveryTaskCompletesAndCallReturns ==
  (pc = "gather") ~> (pc = "returned" /\ Gathered /\ semaphore = Permits)

\* the environment value the constructor reads: no argument was passed and
\* the variable is set to a non-empty text
EnvRead == max_concurrent_tasks = NoInt /\ env_limit # Unset /\ env_limit[1] # <<>>
NonPositive(limit) == limit # NoInt /\ limit[1] <= 0
BoundIsNonPositive ==
  \/ NonPositive(max_concurrent_tasks)
  \/ EnvRead /\ NonPositive(ParseInt(env_limit[1]))
EnvUnparsable == EnvRead /\ ParseInt(env_limit[1]) = NoInt

\* C29: a bound that is zero or negative, passed as max_concurrent_tasks or
\* read from METRICS_MAX_CONCURRENCY, is no bound, and so is an environment
\* value that does not parse: there is no semaphore, and a waiting task can
\* always enter.
C29_NonPositiveBoundIsNoBound ==
  (BoundIsNonPositive \/ EnvUnparsable) =>
     /\ semaphore = NoInt
     /\ \A i \in 1..Len(tasks) : (pc = "gather" /\ tpc[i] = "wait") => ENABLED Enter(i)

\* two tasks run side by side under METRICS_MAX_CONCURRENCY=-2
C29_Witness ==
  /\ max_concurrent_tasks = NoInt
  /\ env_limit = EnvText(<<"-", "2">>)
  /\ Len(tasks) = 2
  /\ \A i \in 1..2 : tpc[i] \in {"cache", "compute"}

\* the objects the caller handed over: the records of the list and the
\* attribute mappings they refer to
CallerRecords == {raw_spans[i][2] : i \in 1..Len(raw_spans)}
CallerMappings ==
  {v[2] : v \in {w \in UNION {{heap[a][k] : k \in DOMAIN heap[a]} : a \in CallerRecords} : IsRef(w)}}
CallerObjects == CallerRecords \cup CallerMappings

\* C30: parse_raw_spans leaves every record of the caller's list, and the
\* attribute mapping of each, with the keys and values it had; what conversion
\* injects is held by the copies alone.
C30_ParsingLeavesRawRecordsAlone ==
  [][/\ raw_spans' = raw_spans
     /\ \A a \in CallerObjects : heap'[a] = heap[a]]_vars

\* a legacy record without session was converted: its copy's attributes hold
\* the injected session.id and ioa_start_time, its own tags hold neither
C30_Witness ==
  /\ parser = "entities"
  /\ parse_raised = None
  /\ Len(raw_spans) = 1
  /\ converted_spans[1][2] \notin CallerObjects
  /\ heap[converted_spans[1][2]]["SpanAttributes"][2] \notin CallerObjects
  /\ {"session.id", "ioa_start_time"} \subseteq
        DOMAIN heap[heap[converted_spans[1][2]]["SpanAttributes"][2]]
  /\ DOMAIN heap[heap[raw_spans[1][2]]["tags"][2]] = {}
  /\ span_entities # <<>>

====
